---- MODULE Spec2Model ----
\* Resizer (rsz): netlist edit primitives, sizing, buffer removal/insertion and
\* the journal built on the odb ECO log, as a state machine over a small design.
EXTENDS Integers, Sequences, FiniteSets, TLC

\* ---------------------------------------------------------------- bounds
\* Number of operations in one behaviour of the journal, the removal and the
\* sizing specification.
MaxJournalSteps == 5
MaxRemovalSteps == 4
MaxSizingSteps == 4
\* Number of operations in one behaviour of the parasitics specification.
MaxParasiticsSteps == 4
\* Number of operations in one behaviour of the whole machine.
MaxSteps == 3
\* Number of operations in one behaviour of the restore-after-resize
\* specification.
MaxResizeRestoreSteps == 4
\* Number of operations in one behaviour of the commit specification.
MaxCommitSteps == 6
\* Number of operations in one behaviour of the input-buffering specification.
MaxBufferInputSteps == 4
\* Number of operations in one behaviour of the tie-fanout specification.
MaxTieSteps == 3
\* Number of findSwapPinCandidate calls in one behaviour of the pin-swap
\* specification.
MaxSwapPinCalls == 1
\* Number of findTargetLoad calls in one behaviour of the target-load
\* specification.
MaxTargetLoadCalls == 2
\* Largest finite capacitance of the number format, in capacitance units; the
\* double of a larger value is infinite.
MaxLoadCap == 16384
\* Cap on unique_net_index_ / unique_inst_index_ (objects the engine creates).
MaxUniqueIndex == 4

\* ---------------------------------------------------------------- library
\* Liberty cells of the two linked libraries.  L2_AND2_X2 lives in a second
\* library under the name AND2_X2, so it is not the link cell of its name.
\* AND2_X8 has a liberty cell but no LEF master.  DFF_X1/DFF_X2 are registers
\* with the two outputs Q and QN.  LOGIC1_X1 is a tie-high cell with a power
\* pin, TIEHL_X1 a tie cell with a high and a low output.
LibertyCells ==
  {"BUF_X1", "BUF_X2", "AND2_X1", "AND2_X2", "AND2_X4", "AND2_X8",
   "L2_AND2_X2", "TBUF_X1", "TBUF_X2", "DFF_X1", "DFF_X2",
   "LOGIC1_X1", "TIEHL_X1"}

CellName(c) == IF c = "L2_AND2_X2" THEN "AND2_X2" ELSE c

NoMaster == "no_master"
Masters ==
  {"BUF_X1", "BUF_X2", "AND2_X1", "AND2_X2", "AND2_X4", "TBUF_X1", "TBUF_X2",
   "DFF_X1", "DFF_X2", "LOGIC1_X1", "TIEHL_X1"}

\* db_->findMaster(name)
findMaster(name) == IF name \in Masters THEN name ELSE NoMaster

\* network_->findLibertyCell(name): the first library's cell of that name.
findLibertyCell(name) == name

isBuffer(c) == c \in {"BUF_X1", "BUF_X2"}
isInverter(c) == FALSE

\* Port names of a cell (a master and its liberty cell agree on them).
Ports(c) ==
  IF CellName(c) \in {"BUF_X1", "BUF_X2"} THEN {"A", "Z"}
  ELSE IF CellName(c) \in {"TBUF_X1", "TBUF_X2"} THEN {"A", "EN", "Z"}
  ELSE IF CellName(c) \in {"DFF_X1", "DFF_X2"} THEN {"D", "CK", "Q", "QN"}
  ELSE IF CellName(c) = "LOGIC1_X1" THEN {"Z", "VDD"}
  ELSE IF CellName(c) = "TIEHL_X1" THEN {"HI", "LO"}
  ELSE {"A1", "A2", "ZN"}

OutputPorts(c) == Ports(c) \cap {"Z", "ZN", "Q", "QN", "HI", "LO"}
InputPorts(c) == Ports(c) \ OutputPorts(c)

\* port->direction()->isAnyTristate()
isAnyTristate(c, port) == CellName(c) \in {"TBUF_X1", "TBUF_X2"} /\ port = "Z"

\* LibertyCell::bufferPorts
bufferInPort == "A"
bufferOutPort == "Z"

\* sta_->equivCells(cell): cells of the same function, in library order.
equivCells(c) ==
  IF CellName(c) \in {"BUF_X1", "BUF_X2"} THEN <<"BUF_X1", "BUF_X2">>
  ELSE IF CellName(c) \in {"TBUF_X1", "TBUF_X2"} THEN <<"TBUF_X1", "TBUF_X2">>
  ELSE IF CellName(c) \in {"DFF_X1", "DFF_X2"} THEN <<"DFF_X1", "DFF_X2">>
  ELSE IF CellName(c) \in {"LOGIC1_X1", "TIEHL_X1"} THEN <<CellName(c)>>
  ELSE <<"AND2_X1", "L2_AND2_X2", "AND2_X2", "AND2_X4", "AND2_X8">>

footprint(c) == IF c = "AND2_X4" THEN "and2_wide" ELSE "std"
NoClass == "no_class"
userFunctionClass(c) == IF c = "TBUF_X2" THEN "tbuf_hs" ELSE NoClass

\* Width and area of a master, in placement units.
MasterWidth == 1
MasterArea(m) ==
  IF m \in {"BUF_X1", "AND2_X1", "TBUF_X1"} THEN 2
  ELSE IF m \in {"BUF_X2", "AND2_X2", "TBUF_X2"} THEN 3
  ELSE IF m = "DFF_X1" THEN 6
  ELSE IF m = "DFF_X2" THEN 8
  ELSE 5

\* Characterised target load of a cell (result of findTargetLoad), in 0.1 fF.
TargetLoad(c) ==
  CASE c = "AND2_X1" -> 20
    [] c = "AND2_X2" -> 50
    [] c = "AND2_X4" -> 90
    [] c = "AND2_X8" -> 130
    [] c = "L2_AND2_X2" -> 55
    [] c = "BUF_X1" -> 30
    [] c = "BUF_X2" -> 60
    [] c = "TBUF_X1" -> 20
    [] c = "DFF_X1" -> 20
    [] c = "DFF_X2" -> 60
    [] OTHER -> 40

\* Core area (one placement axis): core_.xMin(), core_.xMax().
CoreXMin == 1
CoreXMax == 4
core_exists_ == TRUE

\* Objects the timing constraints (sdc) name.
SdcConstrainedPins == {<<"b1", "Z">>}
SdcConstrainedNames == {}
isConstrainedPin(pin) == pin \in SdcConstrainedPins
isConstrained(x) == x \in SdcConstrainedNames

\* ---------------------------------------------------------------- netlist
TopInstance == "top"
TopPorts == {"in1", "in2", "out1", "out2", "out3"}
TopInputs == {"in1", "in2"}
NoNet == "no_net"

Inst(c, l, st) == [cell |-> c, loc |-> l, dont_touch |-> FALSE, status |-> st]

InitInsts ==
  ("b1" :> Inst("BUF_X1", 1, "PLACED")) @@ ("b2" :> Inst("BUF_X1", 2, "FIRM"))
  @@ ("b3" :> Inst("BUF_X2", 0, "PLACED")) @@ ("bp" :> Inst("BUF_X1", 3, "PLACED"))
  @@ ("g1" :> Inst("AND2_X1", 2, "PLACED")) @@ ("g2" :> Inst("TBUF_X1", 3, "PLACED"))
  @@ ("r1" :> Inst("DFF_X1", 2, "PLACED"))

InitNets == [n \in {"n1", "n2", "n3", "n4", "n5", "n6", "n7", "n8", "n9", "n10"} |->
               [dont_touch |-> FALSE]]

InitConn ==
  (<<"top", "in1">> :> "n1") @@ (<<"b1", "A">> :> "n1") @@ (<<"g1", "A2">> :> "n1")
  @@ (<<"b1", "Z">> :> "n2") @@ (<<"g1", "A1">> :> "n2")
  @@ (<<"g1", "ZN">> :> "n3") @@ (<<"b2", "A">> :> "n3") @@ (<<"b3", "A">> :> "n3")
  @@ (<<"b2", "Z">> :> "n4") @@ (<<"top", "out1">> :> "n4")
  @@ (<<"b3", "Z">> :> "n5") @@ (<<"g2", "A">> :> "n5")
  @@ (<<"g2", "Z">> :> "n6") @@ (<<"top", "out2">> :> "n6")
  @@ (<<"top", "in2">> :> "n7") @@ (<<"bp", "A">> :> "n7")
  @@ (<<"bp", "Z">> :> "n8") @@ (<<"top", "out3">> :> "n8")
  @@ (<<"r1", "Q">> :> "n9") @@ (<<"r1", "QN">> :> "n10")

\* The design with tie cells: t1 ties an enable and a data input high and has
\* its power pin on VDD, t2 drives a clock input from HI and a gate input from
\* LO, t3 ties the other input of that gate.
TieInsts ==
  ("t1" :> Inst("LOGIC1_X1", 1, "PLACED")) @@ ("t2" :> Inst("TIEHL_X1", 2, "PLACED"))
  @@ ("t3" :> Inst("LOGIC1_X1", 3, "PLACED")) @@ ("g3" :> Inst("AND2_X1", 3, "PLACED"))
  @@ InitInsts

TieNets == [n \in {"nt1", "nt2", "nt3", "nt4", "VDD"} \cup DOMAIN InitNets |->
              [dont_touch |-> FALSE]]

TieConn ==
  (<<"t1", "Z">> :> "nt1") @@ (<<"g2", "EN">> :> "nt1") @@ (<<"r1", "D">> :> "nt1")
  @@ (<<"t1", "VDD">> :> "VDD")
  @@ (<<"t2", "HI">> :> "nt2") @@ (<<"r1", "CK">> :> "nt2")
  @@ (<<"t2", "LO">> :> "nt3") @@ (<<"g3", "A1">> :> "nt3")
  @@ (<<"t3", "Z">> :> "nt4") @@ (<<"g3", "A2">> :> "nt4")
  @@ InitConn

\* network_->isPower(net), network_->isGround(net)
isPower(n) == n = "VDD"
isGround(n) == n = "VSS"

\* db_network_->location(top_pin)
PortLocation(port) == IF port = "in1" THEN 0 ELSE 5

Remove(f, k) == [x \in DOMAIN f \ {k} |-> f[x]]

\* The world an operation works on: s.db is the odb block, s.rsz the Resizer.
\* network_->net(pin)
net(s, pin) == IF pin \in DOMAIN s.db.conn THEN s.db.conn[pin] ELSE NoNet

\* Pins (instance pins and top-level port pins) connected to a net.
connectedPins(s, n) == {p \in DOMAIN s.db.conn : s.db.conn[p] = n}

\* network_->findInstance(name); the top instance answers to its own name.
findInstance(s, name) == name = TopInstance \/ name \in DOMAIN s.db.insts

\* network_->libertyCell(inst): the link cell of the bound master's name.
libertyCell(s, inst) == findLibertyCell(s.db.insts[inst].cell)

\* network_->pinIterator(inst)
instancePins(s, inst) ==
  IF inst = TopInstance THEN {<<TopInstance, p>> : p \in TopPorts}
  ELSE {<<inst, p>> : p \in Ports(s.db.insts[inst].cell)}

\* ---------------------------------------------------------------- odb ECO
\* One journal entry per primitive edit while an ECO is open.
ecoLog(s, e) ==
  IF s.db.eco THEN [s EXCEPT !.db.journal = Append(@, e)] ELSE s

dbDisconnect(s, pin) ==
  IF pin \in DOMAIN s.db.conn
  THEN ecoLog([s EXCEPT !.db.conn = Remove(@, pin)],
              [op |-> "disconnect", obj |-> pin, old |-> s.db.conn[pin]])
  ELSE s

dbConnect(s, pin, n) ==
  LET s1 == dbDisconnect(s, pin)
  IN ecoLog([s1 EXCEPT !.db.conn = (pin :> n) @@ @],
            [op |-> "connect", obj |-> pin, old |-> NoNet])

RECURSIVE dbDisconnectAll(_, _)
dbDisconnectAll(s, pins) ==
  IF pins = {} THEN s
  ELSE LET p == CHOOSE x \in pins : TRUE
       IN dbDisconnectAll(dbDisconnect(s, p), pins \ {p})

RECURSIVE dbConnectAll(_, _, _)
dbConnectAll(s, pins, n) ==
  IF pins = {} THEN s
  ELSE LET p == CHOOSE x \in pins : TRUE
       IN dbConnectAll(dbConnect(s, p, n), pins \ {p}, n)

dbCreateInst(s, name, rec) ==
  ecoLog([s EXCEPT !.db.insts = (name :> rec) @@ @],
         [op |-> "createInst", obj |-> name, old |-> rec])

\* sta_->deleteInstance: pins are disconnected, then the instance destroyed.
dbDestroyInst(s, name) ==
  LET s1 == dbDisconnectAll(s, instancePins(s, name) \cap DOMAIN s.db.conn)
  IN ecoLog([s1 EXCEPT !.db.insts = Remove(@, name)],
            [op |-> "destroyInst", obj |-> name, old |-> s.db.insts[name]])

dbCreateNet(s, n) ==
  ecoLog([s EXCEPT !.db.nets = (n :> [dont_touch |-> FALSE]) @@ @],
         [op |-> "createNet", obj |-> n, old |-> [dont_touch |-> FALSE]])

\* sta_->deleteNet: every pin is disconnected, then the net destroyed.
dbDestroyNet(s, n) ==
  LET s1 == dbDisconnectAll(s, connectedPins(s, n))
  IN ecoLog([s1 EXCEPT !.db.nets = Remove(@, n)],
            [op |-> "destroyNet", obj |-> n, old |-> s.db.nets[n]])

\* dbInst::swapMaster
dbSwapMaster(s, inst, master) ==
  ecoLog([s EXCEPT !.db.insts[inst].cell = master],
         [op |-> "swapMaster", obj |-> inst, old |-> s.db.insts[inst].cell])

\* dbNet::mergeNet: every terminal of the merged net moves to this net.
mergeNet(s, survivor, removed) ==
  dbConnectAll(s, connectedPins(s, removed), survivor)

\* Reverse of one journal entry, applied to the block.
undoEntry(d, e) ==
  CASE e.op = "connect" -> [d EXCEPT !.conn = Remove(@, e.obj)]
    [] e.op = "disconnect" -> [d EXCEPT !.conn = (e.obj :> e.old) @@ @]
    [] e.op = "createInst" -> [d EXCEPT !.insts = Remove(@, e.obj)]
    [] e.op = "destroyInst" -> [d EXCEPT !.insts = (e.obj :> e.old) @@ @]
    [] e.op = "createNet" -> [d EXCEPT !.nets = Remove(@, e.obj)]
    [] e.op = "destroyNet" -> [d EXCEPT !.nets = (e.obj :> e.old) @@ @]
    [] OTHER -> [d EXCEPT !.insts[e.obj].cell = e.old]

RECURSIVE undoAll(_, _)
undoAll(d, log) ==
  IF log = <<>> THEN d
  ELSE undoAll(undoEntry(d, log[Len(log)]), SubSeq(log, 1, Len(log) - 1))

\* odb::dbDatabase::beginEco / endEco / ecoEmpty / undoEco
beginEco(s) == [s EXCEPT !.db.journal = <<>>, !.db.eco = TRUE]
endEco(s) == [s EXCEPT !.db.eco = FALSE]
ecoEmpty(s) == s.db.journal = <<>>
undoEco(s) ==
  [s EXCEPT !.db = [undoAll(s.db, s.db.journal) EXCEPT !.journal = <<>>]]

\* ---------------------------------------------------------------- Resizer
\* target_load_map_ while no map has been built (a null pointer).
NullMap == [nullptr |-> 0]

Ret(s, r) == [s |-> s, ret |-> r]

\* Resizer::hasPort: the net has a top-level terminal (dbNet::getBTerms).
hasPort(s, n) ==
  /\ n # NoNet
  /\ \E p \in connectedPins(s, n) : p[1] = TopInstance

\* Resizer::parasiticsInvalid / updateParasitics / haveEstimatedParasitics
parasiticsInvalid(s, n) ==
  IF n = NoNet THEN s ELSE [s EXCEPT !.rsz.parasitics_invalid_ = @ \cup {n}]

updateParasitics(s) == [s EXCEPT !.rsz.parasitics_invalid_ = {}]

haveEstimatedParasitics(s) == s.rsz.parasitics_src_ # "none"

\* Resizer::eraseParasitics
eraseParasitics(s, n) == [s EXCEPT !.rsz.parasitics_invalid_ = @ \ {n}]

\* invalidateParasitics without the tristate test.
invalidateParasitics_ignoreTristate(s, pin, n) ==
  IF n # NoNet THEN parasiticsInvalid(s, n) ELSE s

\* Resizer::invalidateParasitics
invalidateParasitics(s, pin, n) ==
  IF n # NoNet /\ ~isAnyTristate(libertyCell(s, pin[1]), pin[2])
  THEN parasiticsInvalid(s, n)
  ELSE s

\* Resizer::area(dbMaster*)
area(master) == MasterArea(master)

\* Resizer::designAreaIncr
designAreaIncr(s, delta) == [s EXCEPT !.rsz.design_area_ = @ + delta]

RECURSIVE SumArea(_, _)
SumArea(insts, names) ==
  IF names = {} THEN 0
  ELSE LET i == CHOOSE x \in names : TRUE
       IN area(insts[i].cell) + SumArea(insts, names \ {i})

\* Resizer::initDesignArea (the design has no filler instances)
initDesignArea(s) ==
  [s EXCEPT !.rsz.design_area_ = SumArea(s.db.insts, DOMAIN s.db.insts)]

\* Resizer::setLocation on one axis: the location is moved into the core.
setLocation(x) ==
  IF core_exists_
  THEN IF x < CoreXMin THEN CoreXMin
       ELSE IF x > CoreXMax - MasterWidth THEN CoreXMax - MasterWidth
       ELSE x
  ELSE x

\* Resizer::makeInstance
makeInstance(s, cell, name, loc) ==
  LET master == CellName(cell)
      s1 == dbCreateInst(s, name, Inst(master, setLocation(loc), "PLACED"))
  IN designAreaIncr(s1, area(master))

NetName(i) == "net" \o ToString(i)

\* Resizer::makeUniqueNetName: the first free net<i> from unique_net_index_ on.
RECURSIVE makeUniqueNetIndex(_, _)
makeUniqueNetIndex(s, i) ==
  IF NetName(i) \in DOMAIN s.db.nets THEN makeUniqueNetIndex(s, i + 1) ELSE i

\* Resizer::makeUniqueNet; the new net is NetName(unique_net_index_ - 1).
makeUniqueNet(s) ==
  LET i == makeUniqueNetIndex(s, s.rsz.unique_net_index_)
  IN dbCreateNet([s EXCEPT !.rsz.unique_net_index_ = i + 1], NetName(i))

lastUniqueNet(s) == NetName(s.rsz.unique_net_index_ - 1)

\* Resizer::bufferBetweenPorts
bufferBetweenPorts(s, buffer) ==
  LET in_net == net(s, <<buffer, bufferInPort>>)
      out_net == net(s, <<buffer, bufferOutPort>>)
  IN hasPort(s, in_net) /\ hasPort(s, out_net)

\* dbInst::isFixed
isFixed(s, inst) == s.db.insts[inst].status = "FIRM"

\* Pins the net iterator may yield first in journalRemoveBuffer's search for
\* a pin other than the buffer input; the buffer input itself if it is alone.
firstOtherPins(s, buffer) ==
  LET in_pin == <<buffer, bufferInPort>>
      others == connectedPins(s, net(s, in_pin)) \ {in_pin}
  IN IF others = {} THEN {in_pin} ELSE others

\* Resizer::journalRemoveBuffer; drvr_pin is the pin the iterator stopped at.
journalRemoveBuffer(s, buffer, drvr_pin) ==
  LET in_pin == <<buffer, bufferInPort>>
      out_pin == <<buffer, bufferOutPort>>
      in_net == net(s, in_pin)
      out_net == net(s, out_pin)
      data == [lib_cell |-> libertyCell(s, buffer),
               driver_pin |-> drvr_pin,
               load_pins |-> connectedPins(s, out_net) \ {out_pin},
               location |-> s.db.insts[buffer].loc]
  IN IF in_net = NoNet \/ out_net = NoNet THEN s
     ELSE [s EXCEPT !.rsz.removed_buffer_map_ = (buffer :> data) @@ Remove(@, buffer)]

\* The edit without the mergeNet call.
removeBufferEdit_noMerge(s, buffer, survivor, removed) ==
  LET s2 == dbDisconnect(s, <<buffer, bufferInPort>>)
      s3 == dbDisconnect(s2, <<buffer, bufferOutPort>>)
      s4 == dbDestroyInst(s3, buffer)
      s5 == dbDestroyNet(s4, removed)
      s6 == eraseParasitics(s5, removed)
  IN updateParasitics(parasiticsInvalid(s6, survivor))

\* The netlist edit at the end of removeBuffer (lines 384-397).
removeBufferEdit(s, buffer, survivor, removed) ==
  LET s1 == mergeNet(s, survivor, removed)
      s2 == dbDisconnect(s1, <<buffer, bufferInPort>>)
      s3 == dbDisconnect(s2, <<buffer, bufferOutPort>>)
      s4 == dbDestroyInst(s3, buffer)
      s5 == dbDestroyNet(s4, removed)
      s6 == eraseParasitics(s5, removed)
  IN updateParasitics(parasiticsInvalid(s6, survivor))

\* removeBuffer's second half rejecting every buffer with a port on its
\* output net.
removeBufferNets_rejectOutPort(s, buffer, honorDontTouchFixed, recordJournal, drvr_pin) ==
  LET in_pin == <<buffer, bufferInPort>>
      out_pin == <<buffer, bufferOutPort>>
      in_net == net(s, in_pin)
      out_net == net(s, out_pin)
      net_dont_touch == s.db.nets[in_net].dont_touch \/ s.db.nets[out_net].dont_touch
      s1 == IF net_dont_touch
            THEN [s EXCEPT !.db.nets[in_net].dont_touch = FALSE,
                           !.db.nets[out_net].dont_touch = FALSE]
            ELSE s
      s2 == IF recordJournal THEN journalRemoveBuffer(s1, buffer, drvr_pin) ELSE s1
  IN IF net_dont_touch /\ honorDontTouchFixed THEN Ret(s, FALSE)
     ELSE IF hasPort(s, out_net) THEN Ret(s1, FALSE)
     ELSE IF ~isConstrainedPin(in_pin) /\ ~isConstrainedPin(out_pin)
             /\ ~isConstrained(out_net) /\ ~isConstrained(buffer)
     THEN Ret(removeBufferEdit(s2, buffer, in_net, out_net), TRUE)
     ELSE Ret(s2, FALSE)

\* Resizer::removeBuffer from the net dont-touch test on (lines 337-400).
removeBufferNets(s, buffer, honorDontTouchFixed, recordJournal, drvr_pin) ==
  LET in_pin == <<buffer, bufferInPort>>
      out_pin == <<buffer, bufferOutPort>>
      in_net == net(s, in_pin)
      out_net == net(s, out_pin)
      net_dont_touch == s.db.nets[in_net].dont_touch \/ s.db.nets[out_net].dont_touch
      s1 == IF net_dont_touch
            THEN [s EXCEPT !.db.nets[in_net].dont_touch = FALSE,
                           !.db.nets[out_net].dont_touch = FALSE]
            ELSE s
      out_net_ports == hasPort(s, out_net)
      survivor == IF out_net_ports THEN out_net ELSE in_net
      removed == IF out_net_ports THEN in_net ELSE out_net
      s2 == IF recordJournal THEN journalRemoveBuffer(s1, buffer, drvr_pin) ELSE s1
  IN IF net_dont_touch /\ honorDontTouchFixed THEN Ret(s, FALSE)
     ELSE IF out_net_ports /\ hasPort(s, in_net) THEN Ret(s1, FALSE)
     ELSE IF ~isConstrainedPin(in_pin) /\ ~isConstrainedPin(out_pin)
             /\ ~isConstrained(removed) /\ ~isConstrained(buffer)
     THEN Ret(removeBufferEdit(s2, buffer, survivor, removed), TRUE)
     ELSE Ret(s2, FALSE)

\* removeBuffer without the dont-touch and fixed tests on the instance.
removeBuffer_ignoreDontTouch(s, buffer, honorDontTouchFixed, recordJournal, drvr_pin) ==
  LET s1 == [s EXCEPT !.db.insts[buffer].dont_touch = FALSE,
                      !.db.insts[buffer].status = "PLACED"]
  IN IF ~isBuffer(libertyCell(s, buffer)) THEN Ret(s, FALSE)
     ELSE IF bufferBetweenPorts(s, buffer) THEN Ret(s, FALSE)
     ELSE removeBufferNets(s1, buffer, honorDontTouchFixed, recordJournal, drvr_pin)

\* Resizer::removeBuffer
removeBuffer(s, buffer, honorDontTouchFixed, recordJournal, drvr_pin) ==
  LET inst == s.db.insts[buffer]
      s1 == [s EXCEPT !.db.insts[buffer].dont_touch = FALSE]
      s2 == IF isFixed(s1, buffer)
            THEN [s1 EXCEPT !.db.insts[buffer].status = "PLACED"]
            ELSE s1
  IN IF ~isBuffer(libertyCell(s, buffer)) THEN Ret(s, FALSE)
     ELSE IF bufferBetweenPorts(s, buffer) THEN Ret(s, FALSE)
     ELSE IF inst.dont_touch /\ honorDontTouchFixed THEN Ret(s, FALSE)
     ELSE IF isFixed(s1, buffer) /\ honorDontTouchFixed THEN Ret(s1, FALSE)
     ELSE removeBufferNets(s2, buffer, honorDontTouchFixed, recordJournal, drvr_pin)

\* journalInstReplaceCellBefore that overwrites an existing checkpoint cell.
journalInstReplaceCellBefore_clobber(s, inst) ==
  [s EXCEPT !.rsz.resized_inst_map_ = (inst :> libertyCell(s, inst)) @@ @]

\* Resizer::journalInstReplaceCellBefore
journalInstReplaceCellBefore(s, inst) ==
  IF inst \in DOMAIN s.rsz.resized_inst_map_ THEN s
  ELSE [s EXCEPT !.rsz.resized_inst_map_ = (inst :> libertyCell(s, inst)) @@ @]

RECURSIVE invalidatePins(_, _)
invalidatePins(s, pins) ==
  IF pins = {} THEN s
  ELSE LET p == CHOOSE x \in pins : TRUE
       IN invalidatePins(invalidateParasitics(s, p, net(s, p)), pins \ {p})

\* replaceCell without the invalidation of the pins' nets.
replaceCell_noInvalidate(s, inst, replacement, journal) ==
  LET replacement_master == findMaster(CellName(replacement))
      master == s.db.insts[inst].cell
      s1 == designAreaIncr(s, 0 - area(master))
      s2 == IF journal THEN journalInstReplaceCellBefore(s1, inst) ELSE s1
      s3 == dbSwapMaster(s2, inst, replacement_master)
      s4 == designAreaIncr(s3, area(replacement_master))
  IN IF replacement_master # NoMaster THEN Ret(s4, TRUE) ELSE Ret(s, FALSE)

\* Resizer::replaceCell
replaceCell(s, inst, replacement, journal) ==
  LET replacement_master == findMaster(CellName(replacement))
      master == s.db.insts[inst].cell
      s1 == designAreaIncr(s, 0 - area(master))
      s2 == IF journal THEN journalInstReplaceCellBefore(s1, inst) ELSE s1
      s3 == dbSwapMaster(s2, inst, replacement_master)
      s4 == designAreaIncr(s3, area(replacement_master))
      s5 == IF haveEstimatedParasitics(s4)
            THEN invalidatePins(s4, instancePins(s4, inst))
            ELSE s4
  IN IF replacement_master # NoMaster THEN Ret(s5, TRUE) ELSE Ret(s, FALSE)

\* Resizer::journalSwapPins
journalSwapPins(s, inst, port1, port2) ==
  [s EXCEPT !.rsz.swapped_pins_ = (inst :> <<port1, port2>>) @@ Remove(@, inst)]

\* swapPins that moves the first pin only.
swapPins_firstPinOnly(s, inst, port1, port2, journal) ==
  LET s0 == IF journal THEN journalSwapPins(s, inst, port1, port2) ELSE s
      found_pin1 == <<inst, port1>>
      net1 == IF port1 \in Ports(s.db.insts[inst].cell) THEN net(s, found_pin1) ELSE NoNet
      net2 == IF port2 \in Ports(s.db.insts[inst].cell) THEN net(s, <<inst, port2>>) ELSE NoNet
      s1 == dbConnect(dbDisconnect(s0, found_pin1), found_pin1, net2)
  IN IF net1 # NoNet /\ net2 # NoNet THEN s1 ELSE s0

\* Resizer::swapPins
swapPins(s, inst, port1, port2, journal) ==
  LET s0 == IF journal THEN journalSwapPins(s, inst, port1, port2) ELSE s
      found_pin1 == <<inst, port1>>
      found_pin2 == <<inst, port2>>
      net1 == IF port1 \in Ports(s.db.insts[inst].cell) THEN net(s, found_pin1) ELSE NoNet
      net2 == IF port2 \in Ports(s.db.insts[inst].cell) THEN net(s, found_pin2) ELSE NoNet
      s1 == dbConnect(dbDisconnect(s0, found_pin1), found_pin1, net2)
      s2 == dbConnect(dbDisconnect(s1, found_pin2), found_pin2, net1)
      s3 == IF haveEstimatedParasitics(s2)
            THEN invalidateParasitics(invalidateParasitics(s2, found_pin2, net1),
                                      found_pin1, net2)
            ELSE s2
  IN IF net1 # NoNet /\ net2 # NoNet THEN s3 ELSE s0

clearJournalLogs(s) ==
  [s EXCEPT !.rsz.resized_inst_map_ = <<>>,
            !.rsz.inserted_buffers_ = <<>>,
            !.rsz.cloned_gates_ = <<>>,
            !.rsz.swapped_pins_ = <<>>,
            !.rsz.removed_buffer_map_ = <<>>]

\* journalBegin that leaves the per-kind logs as they are.
journalBegin_keepLogs(s) ==
  LET s1 == beginEco(s)
  IN [s1 EXCEPT !.rsz.callback_registered_ = FALSE]

\* Resizer::journalBegin
journalBegin(s) ==
  LET s1 == beginEco(s)
      s2 == [s1 EXCEPT !.rsz.callback_registered_ = FALSE]
  IN clearJournalLogs(s2)

\* journalEnd that leaves the ECO open.
journalEnd_noEndEco(s) ==
  LET s1 == IF ~ecoEmpty(s) THEN updateParasitics(s) ELSE s
  IN clearJournalLogs(s1)

\* Resizer::journalEnd
journalEnd(s) ==
  LET s1 == IF ~ecoEmpty(s) THEN updateParasitics(s) ELSE s
  IN clearJournalLogs(endEco(s1))

\* journalRestore without the undoEco call.
journalRestore_skipUndo(s) ==
  LET s0 == initDesignArea(s)
      s1 == endEco([s0 EXCEPT !.db.journal = <<>>])
      s2 == updateParasitics(s1)
      s3 == [s2 EXCEPT
               !.rsz.resize_count_ = @ - Cardinality(DOMAIN s.rsz.resized_inst_map_),
               !.rsz.inserted_buffer_count_ = @ - Len(s.rsz.inserted_buffers_),
               !.rsz.cloned_gate_count_ = @ - Len(s.rsz.cloned_gates_),
               !.rsz.swap_pin_count_ = @ - Cardinality(DOMAIN s.rsz.swapped_pins_),
               !.rsz.removed_buffer_count_ = @ - Cardinality(DOMAIN s.rsz.removed_buffer_map_)]
  IN IF ecoEmpty(s0) THEN endEco(s0) ELSE clearJournalLogs(s3)

\* Resizer::journalRestore, the counters being the Resizer's own
\* (journalRestoreTest, findResizeSlacks).
journalRestore(s) ==
  LET s0 == initDesignArea(s)
      \* the observer is registered while undoEco runs and removed after it
      s1 == undoEco(endEco([s0 EXCEPT !.rsz.callback_registered_ = TRUE]))
      s2 == updateParasitics([s1 EXCEPT !.rsz.callback_registered_ = FALSE])
      s3 == [s2 EXCEPT
               !.rsz.resize_count_ = @ - Cardinality(DOMAIN s.rsz.resized_inst_map_),
               !.rsz.inserted_buffer_count_ = @ - Len(s.rsz.inserted_buffers_),
               !.rsz.cloned_gate_count_ = @ - Len(s.rsz.cloned_gates_),
               !.rsz.swap_pin_count_ = @ - Cardinality(DOMAIN s.rsz.swapped_pins_),
               !.rsz.removed_buffer_count_ = @ - Cardinality(DOMAIN s.rsz.removed_buffer_map_)]
  IN IF ecoEmpty(s0) THEN endEco(s0) ELSE clearJournalLogs(s3)

\* The calls journalRestore makes, in order, each with the state it leaves.
Called(calls, name, s) == Append(calls, [call |-> name, s |-> s])
Now(calls) == calls[Len(calls)].s

\* journalRestore undoing the ECO while it is still open.
journalRestoreCalls_undoFirst(s) ==
  LET c0 == Called(<<>>, "init", initDesignArea(s))
      c1 == Called(c0, "undoEco", undoEco(Now(c0)))
      c2 == Called(c1, "endEco", endEco(Now(c1)))
      c3 == Called(c2, "updateParasitics", updateParasitics(Now(c2)))
      c4 == Called(c3, "findRequireds", Now(c3))
  IN Called(c4, "clear", journalRestore(s))

\* Resizer::journalRestore, call by call.
journalRestoreCalls(s) ==
  LET c0 == Called(<<>>, "init", initDesignArea(s))
      e1 == Called(c0, "endEco", endEco(Now(c0)))
      e2 == Called(e1, "incrementalParasiticsEnd", Now(e1))
      c1 == Called(c0, "incrementalParasiticsEnd", Now(c0))
      c2 == Called(c1, "incrementalParasiticsBegin", Now(c1))
      c3 == IF ~Now(c2).rsz.callback_registered_
            THEN Called(Called(c2, "addOwner", Now(c2)), "setCallBackRegistered",
                        [Now(c2) EXCEPT !.rsz.callback_registered_ = TRUE])
            ELSE c2
      c4 == Called(c3, "endEco", endEco(Now(c3)))
      c5 == Called(c4, "undoEco", undoEco(Now(c4)))
      c6 == Called(c5, "removeOwner", Now(c5))
      c7 == Called(c6, "setCallBackRegistered",
                   [Now(c6) EXCEPT !.rsz.callback_registered_ = FALSE])
      c8 == Called(c7, "updateParasitics", updateParasitics(Now(c7)))
      c9 == Called(c8, "findRequireds", Now(c8))
      c10 == Called(c9, "incrementalParasiticsEnd", Now(c9))
      n == Now(c10)
      c11 == Called(c10, "clear",
               clearJournalLogs(
                 [n EXCEPT
                    !.rsz.resize_count_ = @ - Cardinality(DOMAIN n.rsz.resized_inst_map_),
                    !.rsz.inserted_buffer_count_ = @ - Len(n.rsz.inserted_buffers_),
                    !.rsz.cloned_gate_count_ = @ - Len(n.rsz.cloned_gates_),
                    !.rsz.swap_pin_count_ = @ - Cardinality(DOMAIN n.rsz.swapped_pins_),
                    !.rsz.removed_buffer_count_ =
                      @ - Cardinality(DOMAIN n.rsz.removed_buffer_map_)]))
  IN IF ecoEmpty(Now(c0)) THEN e2 ELSE c11

\* journalMakeBuffer that forgets the buffer.
journalMakeBuffer_noLog(s, buffer) == s

\* Resizer::journalMakeBuffer
journalMakeBuffer(s, buffer) ==
  [s EXCEPT !.rsz.inserted_buffers_ = Append(@, buffer)]

\* Resizer::makeBuffer
makeBuffer(s, cell, name, loc) ==
  journalMakeBuffer(makeInstance(s, cell, name, loc), name)

\* Resizer::journalCloneInstance
journalCloneInstance(s, cell, name, original_inst, loc) ==
  LET s1 == makeInstance(s, cell, name, loc)
  IN [s1 EXCEPT !.rsz.cloned_gates_ = Append(@, <<original_inst, name>>)]

RECURSIVE makeUniqueInstIndex(_, _, _)
makeUniqueInstIndex(s, base_name, i) ==
  IF findInstance(s, base_name \o ToString(i))
  THEN makeUniqueInstIndex(s, base_name, i + 1)
  ELSE i

NullInst == "nullptr_inst"

\* Resizer::bufferInput on a flat design (no hierarchical nets).
bufferInput(s, top_port, buffer_cell) ==
  LET top_pin == <<TopInstance, top_port>>
      input_net == net(s, top_pin)
      fanout == connectedPins(s, input_net) \ {top_pin}
      has_dont_touch ==
        \E p \in fanout : p[1] # TopInstance /\ s.db.insts[p[1]].dont_touch
      has_non_buffer ==
        \E p \in fanout : p[1] = TopInstance \/ ~isBuffer(libertyCell(s, p[1]))
      i == makeUniqueInstIndex(s, "input", s.rsz.unique_inst_index_)
      buffer_name == "input" \o ToString(i)
      s1 == makeUniqueNet([s EXCEPT !.rsz.unique_inst_index_ = i + 1])
      buffer_out == lastUniqueNet(s1)
      s2 == makeBuffer(s1, buffer_cell, buffer_name, PortLocation(top_port))
      s3 == [s2 EXCEPT !.rsz.inserted_buffer_count_ = @ + 1]
      s4 == dbConnectAll(s3, fanout, buffer_out)
      s5 == dbConnect(s4, <<buffer_name, bufferInPort>>, input_net)
      s6 == dbConnect(s5, <<buffer_name, bufferOutPort>>, buffer_out)
  IN IF has_dont_touch \/ ~has_non_buffer THEN Ret(s, NullInst)
     ELSE Ret(parasiticsInvalid(parasiticsInvalid(s6, input_net), buffer_out),
              buffer_name)

\* canRestoreBuffer that only looks for the loads.
canRestoreBuffer_loadsOnly(s, data) ==
  \A load_pin \in data.load_pins : findInstance(s, load_pin[1])

\* Resizer::canRestoreBuffer
canRestoreBuffer(s, data) ==
  /\ findInstance(s, data.driver_pin[1])
  /\ \A load_pin \in data.load_pins : findInstance(s, load_pin[1])

\* First loop of journalRestoreBuffers: re-create the buffers that can be
\* restored, in the map's iteration order, and drop the other records.
RECURSIVE restoreCreate(_, _)
restoreCreate(s, order) ==
  IF order = <<>> THEN s
  ELSE LET name == Head(order)
           data == s.rsz.removed_buffer_map_[name]
       IN IF canRestoreBuffer(s, data)
          THEN restoreCreate(makeInstance(s, data.lib_cell, name, data.location),
                             Tail(order))
          ELSE restoreCreate([s EXCEPT !.rsz.removed_buffer_map_ = Remove(@, name)],
                             Tail(order))

\* Body of the second loop of journalRestoreBuffers for one record.
restoreConnect(s, name) ==
  LET data == s.rsz.removed_buffer_map_[name]
      drvr_pin == data.driver_pin
      s1 == makeUniqueNet(s)
      input_net == lastUniqueNet(s1)
      orig_input_net == net(s1, drvr_pin)
      side_load_pins == connectedPins(s1, orig_input_net) \ {drvr_pin}
      s2 == dbConnect(dbDisconnect(s1, drvr_pin), drvr_pin, input_net)
      s3 == dbConnect(s2, <<name, bufferInPort>>, input_net)
      s4 == dbDestroyNet(s3, orig_input_net)
      s5 == makeUniqueNet(s4)
      output_net == lastUniqueNet(s5)
      s6 == dbConnectAll(s5, data.load_pins, output_net)
      s7 == dbConnect(s6, <<name, bufferOutPort>>, output_net)
      s8 == dbConnectAll(s7, side_load_pins \ data.load_pins, input_net)
      s9 == parasiticsInvalid(parasiticsInvalid(s8, input_net), output_net)
  IN [s9 EXCEPT !.rsz.removed_buffer_count_ = @ - 1]

RECURSIVE restoreConnectAll(_, _)
restoreConnectAll(s, order) ==
  IF order = <<>> THEN s
  ELSE IF Head(order) \in DOMAIN s.rsz.removed_buffer_map_
  THEN restoreConnectAll(restoreConnect(s, Head(order)), Tail(order))
  ELSE restoreConnectAll(s, Tail(order))

\* Resizer::journalRestoreBuffers; order is the iteration order of
\* removed_buffer_map_.
journalRestoreBuffers(s, order) ==
  LET s1 == restoreConnectAll(restoreCreate(s, order), order)
  IN [s1 EXCEPT !.rsz.removed_buffer_map_ = <<>>]

\* Resizer::setDontTouch(const Instance*), setDontTouch(const Net*)
setDontTouchInst(s, inst, dont_touch) ==
  [s EXCEPT !.db.insts[inst].dont_touch = dont_touch]

setDontTouchNet(s, n, dont_touch) ==
  [s EXCEPT !.db.nets[n].dont_touch = dont_touch]

\* Resizer::dontTouch(const Instance*); the top instance has no dbInst.
dontTouch(s, inst) == inst # TopInstance /\ s.db.insts[inst].dont_touch

\* ---------------------------------------------------------------- tie fanout
\* Resizer::tieLocation on one axis: the load pin sits at its instance's
\* origin, the left edge of the bounding box.
tieLocation(s, load, separation) ==
  LET load_x == IF load[1] = TopInstance THEN PortLocation(load[2])
                ELSE s.db.insts[load[1]].loc
      left_dist == 0
      right_dist == MasterWidth
  IN IF load[1] = TopInstance THEN load_x
     ELSE IF left_dist < right_dist THEN load_x - separation
     ELSE IF right_dist < left_dist THEN load_x + separation
     ELSE load_x

\* Body of the load loop of repairTieFanout: a tie instance and a net for one
\* load.
tieLoad(s, load, tie_cell, tie_port, separation) ==
  LET base_name == load[1] \o "_"
      i == makeUniqueInstIndex(s, base_name, s.rsz.unique_inst_index_)
      tie_name == base_name \o ToString(i)
      s1 == makeInstance([s EXCEPT !.rsz.unique_inst_index_ = i + 1], tie_cell,
                         tie_name, tieLocation(s, load, separation))
      s2 == makeUniqueNet(s1)
      load_net == lastUniqueNet(s2)
      s3 == dbConnect(s2, <<tie_name, tie_port>>, load_net)
      s4 == dbConnect(dbDisconnect(s3, load), load, load_net)
  IN designAreaIncr(s4, area(CellName(tie_cell)))

RECURSIVE tieLoads(_, _, _, _, _)
tieLoads(s, loads, tie_cell, tie_port, separation) ==
  IF loads = {} THEN s
  ELSE LET load == CHOOSE x \in loads : TRUE
       IN tieLoads(tieLoad(s, load, tie_cell, tie_port, separation),
                   loads \ {load}, tie_cell, tie_port, separation)

\* Some pin of inst other than drvr_pin is on a net that is neither power nor
\* ground, power nets counting as fanout too.
hasOtherFanout_countPower(s, inst, drvr_pin) ==
  \E pin \in instancePins(s, inst) \ {drvr_pin} : net(s, pin) # NoNet

\* has_other_fanout in repairTieFanout
hasOtherFanout(s, inst, drvr_pin) ==
  \E pin \in instancePins(s, inst) \ {drvr_pin} :
    net(s, pin) # NoNet /\ ~isPower(net(s, pin)) /\ ~isGround(net(s, pin))

\* Body of the instance loop of repairTieFanout.
repairTieInst(s, inst, tie_cell, tie_port, separation) ==
  LET drvr_pin == <<inst, tie_port>>
      tie_net == net(s, drvr_pin)
      s1 == tieLoads(s, connectedPins(s, tie_net) \ {drvr_pin}, tie_cell, tie_port,
                     separation)
      s2 == eraseParasitics(dbDestroyNet(s1, tie_net), tie_net)
  IN IF dontTouch(s, inst) THEN s
     ELSE IF tie_net = NoNet THEN s
     ELSE IF s.db.nets[tie_net].dont_touch THEN s
     ELSE IF hasOtherFanout(s2, inst, drvr_pin) THEN s2
     ELSE dbDestroyInst(s2, inst)

RECURSIVE repairTieInsts(_, _, _, _, _)
repairTieInsts(s, insts, tie_cell, tie_port, separation) ==
  IF insts = {} THEN s
  ELSE LET inst == CHOOSE x \in insts : TRUE
       IN repairTieInsts(repairTieInst(s, inst, tie_cell, tie_port, separation),
                         insts \ {inst}, tie_cell, tie_port, separation)

\* Resizer::findCellInstances
findCellInstances(s, cell) == {i \in DOMAIN s.db.insts : libertyCell(s, i) = cell}

\* Resizer::repairTieFanout
repairTieFanout(s, tie_cell, tie_port, separation) ==
  repairTieInsts(initDesignArea(s), findCellInstances(s, tie_cell), tie_cell,
                 tie_port, separation)

\* ---------------------------------------------------------------- sizing
\* Resizer::setDontUse
setDontUse(s, cell, dont_use) ==
  [s EXCEPT !.rsz.dont_use_ = IF dont_use THEN @ \cup {cell} ELSE @ \ {cell}]

\* dontUse answering that no cell is dont-use.
dontUse_never(s, cell) == FALSE

\* Resizer::dontUse; no cell carries the liberty dont_use attribute.
dontUse(s, cell) == cell \in s.rsz.dont_use_

\* Resizer::isLinkCell
isLinkCell(cell) == findLibertyCell(CellName(cell)) = cell

\* Resizer::findTargetLoads: built once, for the link cells then in use.
findTargetLoads(s) ==
  IF s.rsz.target_load_map_ = NullMap
  THEN [s EXCEPT !.rsz.target_load_map_ =
          [c \in {x \in LibertyCells : isLinkCell(x) /\ ~dontUse(s, x)} |->
             TargetLoad(c)]]
  ELSE s

\* (*target_load_map_)[cell]: a missing key reads as 0.
targetLoadOf(s, cell) ==
  IF cell \in DOMAIN s.rsz.target_load_map_ THEN s.rsz.target_load_map_[cell] ELSE 0

\* Resizer::getSwappableCells
getSwappableCells(s, source_cell) ==
  SelectSeq(equivCells(source_cell),
            LAMBDA equiv_cell :
              /\ s.rsz.match_cell_footprint_
                   => footprint(source_cell) = footprint(equiv_cell)
              /\ userFunctionClass(source_cell) # NoClass
                   => userFunctionClass(source_cell) = userFunctionClass(equiv_cell))

\* Resizer::targetLoadDist
targetLoadDist(load_cap, target_load) ==
  IF load_cap >= target_load THEN load_cap - target_load ELSE target_load - load_cap

\* Resizer::bufferDelay at the target-slew corner (delay calculator answer).
bufferDelay(cell, load_cap) ==
  IF cell = "BUF_X1" THEN 20 + 2 * load_cap ELSE 25 + load_cap

\* The loop of findTargetCell over swappable_cells[k..], carrying the best.
RECURSIVE findTargetCellLoop(_, _, _, _, _, _, _)
findTargetCellLoop(s, cells, k, load_cap, revisiting_inst, is_buf_inv, best) ==
  IF k > Len(cells) THEN best.cell
  ELSE LET target_cell == cells[k]
           target_load == targetLoadOf(s, target_cell)
           delay == IF is_buf_inv THEN bufferDelay(target_cell, load_cap) ELSE 0
           dist == targetLoadDist(load_cap, target_load)
           better ==
             IF is_buf_inv
             THEN \/ (delay < best.delay /\ 10 * dist < 11 * best.dist)
                  \/ (dist < best.dist /\ 10 * delay < 11 * best.delay)
             ELSE /\ dist < best.dist
                  /\ (~revisiting_inst \/ target_load > best.load)
           best1 == IF ~dontUse(s, target_cell) /\ isLinkCell(target_cell) /\ better
                    THEN [cell |-> target_cell, dist |-> dist,
                          load |-> target_load, delay |-> delay]
                    ELSE best
       IN findTargetCellLoop(s, cells, k + 1, load_cap, revisiting_inst,
                             is_buf_inv, best1)

\* findTargetCell that keeps the bound cell whatever the load.
findTargetCell_keepCurrent(s, cell, load_cap, revisiting_inst) == cell

\* findTargetCell that treats every visit as the first.
findTargetCell_ignoreRevisit(s, cell, load_cap, revisiting_inst) ==
  LET swappable_cells == getSwappableCells(s, cell)
      is_buf_inv == isBuffer(cell) \/ isInverter(cell)
      target_load == targetLoadOf(s, cell)
      best == [cell |-> cell, dist |-> targetLoadDist(load_cap, target_load),
               load |-> target_load,
               delay |-> IF is_buf_inv THEN bufferDelay(cell, load_cap) ELSE 0]
  IN IF swappable_cells # <<>>
     THEN findTargetCellLoop(s, swappable_cells, 1, load_cap, FALSE, is_buf_inv, best)
     ELSE cell

\* Resizer::findTargetCell
findTargetCell(s, cell, load_cap, revisiting_inst) ==
  LET swappable_cells == getSwappableCells(s, cell)
      is_buf_inv == isBuffer(cell) \/ isInverter(cell)
      target_load == targetLoadOf(s, cell)
      best == [cell |-> cell, dist |-> targetLoadDist(load_cap, target_load),
               load |-> target_load,
               delay |-> IF is_buf_inv THEN bufferDelay(cell, load_cap) ELSE 0]
  IN IF swappable_cells # <<>>
     THEN findTargetCellLoop(s, swappable_cells, 1, load_cap, revisiting_inst,
                             is_buf_inv, best)
     ELSE cell

\* Keys findTargetCell reads with operator[] and so adds to target_load_map_.
findTargetCellReads(s, cell) ==
  LET swappable_cells == getSwappableCells(s, cell)
  IN IF swappable_cells = <<>> THEN {}
     ELSE {cell} \cup {swappable_cells[k] : k \in
             {j \in 1..Len(swappable_cells) :
                ~dontUse(s, swappable_cells[j]) /\ isLinkCell(swappable_cells[j])}}

\* Resizer::hasMultipleOutputs
hasMultipleOutputs(s, inst) ==
  Cardinality({p \in OutputPorts(s.db.insts[inst].cell) :
                 net(s, <<inst, p>>) # NoNet}) > 1

\* resizeToTargetSlew calling replaceCell also when the bound cell is selected.
resizeToTargetSlew_alwaysReplace(s, drvr_pin, load_cap) ==
  LET inst == drvr_pin[1]
      cell == libertyCell(s, inst)
      target_cell == findTargetCell(s, cell, load_cap, FALSE)
      r == replaceCell(s, inst, target_cell, TRUE)
  IN IF inst = TopInstance \/ dontTouch(s, inst) THEN Ret(s, 0)
     ELSE IF load_cap <= 0 THEN Ret(s, 0)
     ELSE IF target_cell = cell THEN Ret(r.s, 0)
     ELSE IF r.ret THEN Ret(r.s, 1)
     ELSE Ret(r.s, 0)

\* Resizer::resizeToTargetSlew; load_cap is graph_delay_calc_->loadCap(drvr_pin).
resizeToTargetSlew(s, drvr_pin, load_cap) ==
  LET inst == drvr_pin[1]
      cell == libertyCell(s, inst)
      multi == hasMultipleOutputs(s, inst)
      revisiting_inst == multi /\ inst \in s.rsz.resized_multi_output_insts_
      s1 == IF multi
            THEN [s EXCEPT !.rsz.resized_multi_output_insts_ = @ \cup {inst}]
            ELSE s
      target_cell == findTargetCell(s1, cell, load_cap, revisiting_inst)
      s2 == [s1 EXCEPT !.rsz.target_load_map_ =
               [c \in DOMAIN @ \cup findTargetCellReads(s1, cell) |->
                  targetLoadOf(s1, c)]]
      r == replaceCell(s2, inst, target_cell, TRUE)
  IN IF inst = TopInstance \/ dontTouch(s, inst) THEN Ret(s, 0)
     ELSE IF load_cap <= 0 THEN Ret(s1, 0)
     ELSE IF target_cell = cell THEN Ret(s2, 0)
     ELSE IF r.ret /\ ~revisiting_inst THEN Ret(r.s, 1)
     ELSE Ret(r.s, 0)

\* ---------------------------------------------------------------- target load
\* Capacitances are whole numbers of units, 1 pF being OnePicoFarad units, so
\* halving an interval is exact down to a width of one unit and a value below
\* one unit is zero.
OnePicoFarad == 1024
InfLoadCap == 4 * MaxLoadCap
\* tgt_slews_[rf], in slew units.
TargetSlew == 6000
\* tol = .01 as the ratio 1 / TolInverse
TolInverse == 100

\* Timing arcs: the slew of a gate timing model is s0 + k * load_cap, capped at
\* smax; nothing is modelled for an arc without a gate timing model.
Arc(name, model, s0, k, smax) ==
  [name |-> name, model |-> model, s0 |-> s0, k |-> k, smax |-> smax]

TimingArcs ==
  {Arc("slow", TRUE, 6001, 1, 100000), Arc("at_target", TRUE, 6000, 1, 100000),
   Arc("flat", TRUE, 1000, 0, 100000), Arc("saturating", TRUE, 1000, 1, 5000),
   Arc("inside", TRUE, 3000, 10, 100000), Arc("between", TRUE, 2995, 10, 100000),
   Arc("edge", TRUE, 880, 5, 100000), Arc("outside", TRUE, 1000, 1, 100000),
   Arc("plateau", TRUE, 3000, 10, 6000), Arc("no_model", FALSE, 0, 0, 0)}

\* GateTimingModel::gateDelay: the output slew at a load.
gateSlew(arc, load_cap) ==
  IF arc.s0 + arc.k * load_cap < arc.smax THEN arc.s0 + arc.k * load_cap
  ELSE arc.smax

\* Resizer::gateSlewDiff
gateSlewDiff(arc, load_cap, out_slew) == gateSlew(arc, load_cap) - out_slew

\* load_cap2 *= 2
doubleLoadCap(c) == IF 2 * c > MaxLoadCap THEN InfLoadCap ELSE 2 * c

\* abs(load_cap1 - load_cap2) > max(load_cap1, load_cap2) * tol; with an
\* infinite bound both sides are infinite and the test is false.
searchContinues(load_cap1, load_cap2) ==
  /\ load_cap2 # InfLoadCap
  /\ TolInverse * (IF load_cap1 > load_cap2 THEN load_cap1 - load_cap2
                                            ELSE load_cap2 - load_cap1)
       > (IF load_cap1 > load_cap2 THEN load_cap1 ELSE load_cap2)

IdleSearch ==
  [pc |-> "idle", arc |-> "none", load_cap1 |-> 0, load_cap2 |-> 0, diff2 |-> 0]

\* Resizer::findTargetLoad(cell, arc, in_slew, out_slew) up to the loop.
findTargetLoadEnter(arc, out_slew) ==
  LET diff1 == gateSlewDiff(arc, 0, out_slew)
  IN IF ~arc.model \/ diff1 > 0
     THEN [pc |-> "done", arc |-> arc, load_cap1 |-> 0, load_cap2 |-> 0, diff2 |-> 0]
     ELSE [pc |-> "loop", arc |-> arc, load_cap1 |-> 0, load_cap2 |-> OnePicoFarad,
           diff2 |-> gateSlewDiff(arc, OnePicoFarad, out_slew)]

\* The loop body taking the bisection point as the new lower bound whatever
\* its slew is.
findTargetLoadBody_alwaysLower(sr, out_slew) ==
  IF sr.diff2 < 0
  THEN [sr EXCEPT !.load_cap1 = sr.load_cap2,
                  !.load_cap2 = doubleLoadCap(sr.load_cap2),
                  !.diff2 = gateSlewDiff(sr.arc, doubleLoadCap(sr.load_cap2), out_slew)]
  ELSE [sr EXCEPT !.load_cap1 = (sr.load_cap1 + sr.load_cap2) \div 2]

\* One pass through the body of the while loop of findTargetLoad.
findTargetLoadBody(sr, out_slew) ==
  LET load_cap3 == (sr.load_cap1 + sr.load_cap2) \div 2
      diff3 == gateSlewDiff(sr.arc, load_cap3, out_slew)
  IN IF sr.diff2 < 0
     THEN [sr EXCEPT !.load_cap1 = sr.load_cap2,
                     !.load_cap2 = doubleLoadCap(sr.load_cap2),
                     !.diff2 = gateSlewDiff(sr.arc, doubleLoadCap(sr.load_cap2), out_slew)]
     ELSE IF diff3 < 0
     THEN [sr EXCEPT !.load_cap1 = load_cap3]
     ELSE [sr EXCEPT !.load_cap2 = load_cap3, !.diff2 = diff3]

\* The loop test and, if it holds, the body; otherwise return load_cap1.
findTargetLoadIterate(sr, out_slew) ==
  IF searchContinues(sr.load_cap1, sr.load_cap2)
  THEN findTargetLoadBody(sr, out_slew)
  ELSE [sr EXCEPT !.pc = "done"]

\* ---------------------------------------------------------------- pin swap
\* sta::INF
INF == 1000000
NullPort == "nullptr_port"

\* port_delays.insert / port_delays[key] = value
putDelay(port_delays, port, delay) ==
  [p \in DOMAIN port_delays \cup {port} |-> IF p = port THEN delay ELSE port_delays[p]]

\* First loop of findSwapPinCandidate over the arcs into drvr_port, from arc k
\* on: m.base_delay and m.port_delays.
RECURSIVE findPortDelays(_, _, _, _)
findPortDelays(arcs, k, input_port, m) ==
  IF k > Len(arcs) THEN m
  ELSE LET port == arcs[k].from
           gate_delay == arcs[k].delay
           m1 == IF port = input_port
                 THEN [m EXCEPT !.base_delay =
                         IF gate_delay > @ THEN gate_delay ELSE @]
                 ELSE IF port \notin DOMAIN m.port_delays
                 THEN [m EXCEPT !.port_delays = putDelay(@, port, gate_delay)]
                 ELSE [m EXCEPT !.port_delays =
                         putDelay(@, input_port,
                                  IF m.port_delays[port] > gate_delay
                                  THEN m.port_delays[port] ELSE gate_delay)]
       IN findPortDelays(arcs, k + 1, input_port, m1)

\* Second loop of findSwapPinCandidate over equiv_ports, from port k on.
RECURSIVE findSwapPort(_, _, _, _, _, _)
findSwapPort(equiv_ports, k, input_port, drvr_port, m, swap_port) ==
  IF k > Len(equiv_ports) THEN swap_port
  ELSE LET port == equiv_ports[k]
       IN IF /\ port \in DOMAIN m.port_delays
             /\ port # drvr_port
             /\ port # input_port
             /\ m.port_delays[port] < m.base_delay
          THEN findSwapPort(equiv_ports, k + 1, input_port, drvr_port,
                            [m EXCEPT !.base_delay = m.port_delays[port]], port)
          ELSE findSwapPort(equiv_ports, k + 1, input_port, drvr_port, m, swap_port)

\* Resizer::findSwapPinCandidate; arcs are the non-check arcs into drvr_port in
\* the cell's order, the result is *swap_port.
findSwapPinCandidate(arcs, input_port, drvr_port, equiv_ports, swap_port) ==
  findSwapPort(equiv_ports, 1, input_port, drvr_port,
               findPortDelays(arcs, 1, input_port,
                              [base_delay |-> 0 - INF, port_delays |-> <<>>]),
               swap_port)

\* ---------------------------------------------------------------- machine
VARIABLES
  db,      \* the odb block: insts, nets, conn, and the ECO journal
  rsz,     \* the Resizer's members
  last,    \* the operation just performed: [op, arg, ret]
  before,  \* db and rsz as they were when that operation was called
  begin,   \* db and the counters as they were when journalBegin last returned
  steps,   \* operations performed so far
  search   \* the findTargetLoad call in progress or just returned

vars == <<db, rsz, last, before, begin, steps, search>>

World == [db |-> db, rsz |-> rsz]

ParasiticsSrcs == {"none", "placement"}

\* Resizer::Resizer and Resizer::init on the loaded design.
InitRsz(src, match) ==
  [parasitics_invalid_ |-> {},
   parasitics_src_ |-> src,
   design_area_ |-> SumArea(InitInsts, DOMAIN InitInsts),
   resized_inst_map_ |-> <<>>,
   inserted_buffers_ |-> <<>>,
   cloned_gates_ |-> <<>>,
   swapped_pins_ |-> <<>>,
   removed_buffer_map_ |-> <<>>,
   callback_registered_ |-> FALSE,
   resize_count_ |-> 0,
   inserted_buffer_count_ |-> 0,
   cloned_gate_count_ |-> 0,
   swap_pin_count_ |-> 0,
   removed_buffer_count_ |-> 0,
   unique_net_index_ |-> 1,
   unique_inst_index_ |-> 1,
   resized_multi_output_insts_ |-> {},
   target_load_map_ |-> NullMap,
   dont_use_ |-> {},
   match_cell_footprint_ |-> match]

InitWith(src, match) ==
  /\ db = [insts |-> InitInsts, nets |-> InitNets, conn |-> InitConn,
           journal |-> <<>>, eco |-> FALSE]
  /\ rsz = InitRsz(src, match)
  /\ last = [op |-> "init", arg |-> <<>>, ret |-> FALSE]
  /\ before = [db |-> db, rsz |-> rsz]
  /\ begin = db @@ [inserted_buffer_count_ |-> rsz.inserted_buffer_count_]
  /\ steps = 0
  /\ search = IdleSearch

Init == \E src \in ParasiticsSrcs, match \in BOOLEAN : InitWith(src, match)

\* One operation: the world becomes s, and the call is remembered.
Step(op, arg, s, ret) ==
  /\ db' = s.db
  /\ rsz' = s.rsz
  /\ last' = [op |-> op, arg |-> arg, ret |-> ret]
  /\ before' = World
  /\ steps' = steps + 1
  /\ UNCHANGED search

JournalBegin ==
  /\ Step("journalBegin", <<>>, journalBegin(World), FALSE)
  /\ begin' = db' @@ [inserted_buffer_count_ |-> rsz'.inserted_buffer_count_]

JournalEnd ==
  /\ db.eco
  /\ Step("journalEnd", <<>>, journalEnd(World), FALSE)
  /\ UNCHANGED begin

JournalRestore ==
  /\ db.eco
  /\ Step("journalRestore", <<>>, journalRestore(World), FALSE)
  /\ UNCHANGED begin

\* The orders in which a map with key set S can be iterated.
Orders(S) ==
  {f \in [1..Cardinality(S) -> S] : \A x \in S : \E i \in DOMAIN f : f[i] = x}

\* makeInstance needs a free name: a record of a buffer that still exists
\* (recorded by a removeBuffer that removed nothing) makes the call abort.
JournalRestoreBuffers(order) ==
  /\ rsz.removed_buffer_map_ # <<>>
  /\ \A name \in DOMAIN rsz.removed_buffer_map_ : ~findInstance(World, name)
  /\ rsz.unique_net_index_ - 1 + 2 * Len(order) <= MaxUniqueIndex
  /\ Step("journalRestoreBuffers", order, journalRestoreBuffers(World, order), FALSE)
  /\ UNCHANGED begin

RemoveBuffer(buffer, honorDontTouchFixed, recordJournal, drvr_pin) ==
  LET r == removeBuffer(World, buffer, honorDontTouchFixed, recordJournal, drvr_pin)
  IN /\ Step("removeBuffer", <<buffer, honorDontTouchFixed, recordJournal>>,
             r.s, r.ret)
     /\ UNCHANGED begin

ReplaceCell(inst, replacement, journal) ==
  LET r == replaceCell(World, inst, replacement, journal)
  IN /\ Step("replaceCell", <<inst, replacement, journal>>, r.s, r.ret)
     /\ UNCHANGED begin

SwapPins(inst, port1, port2, journal) ==
  /\ Step("swapPins", <<inst, port1, port2, journal>>,
          swapPins(World, inst, port1, port2, journal), FALSE)
  /\ UNCHANGED begin

BufferInput(top_port, buffer_cell) ==
  LET r == bufferInput(World, top_port, buffer_cell)
  IN /\ rsz.unique_net_index_ <= MaxUniqueIndex
     /\ rsz.unique_inst_index_ <= MaxUniqueIndex
     /\ Step("bufferInput", <<top_port, buffer_cell>>, r.s, r.ret # NullInst)
     /\ UNCHANGED begin

JournalCloneInstance(cell, name, original_inst, loc) ==
  /\ ~findInstance(World, name)
  /\ findInstance(World, original_inst)
  /\ Step("journalCloneInstance", <<cell, name, original_inst, loc>>,
          journalCloneInstance(World, cell, name, original_inst, loc), FALSE)
  /\ UNCHANGED begin

SetDontTouchInst(inst, dont_touch) ==
  /\ Step("setDontTouch", <<inst, dont_touch>>,
          setDontTouchInst(World, inst, dont_touch), FALSE)
  /\ UNCHANGED begin

SetDontTouchNet(n, dont_touch) ==
  /\ Step("setDontTouchNet", <<n, dont_touch>>,
          setDontTouchNet(World, n, dont_touch), FALSE)
  /\ UNCHANGED begin

\* Registration of the database observer by the parasitics flow.
SetCallBackRegistered(flag) ==
  /\ Step("setCallBackRegistered", <<flag>>,
          [World EXCEPT !.rsz.callback_registered_ = flag], FALSE)
  /\ UNCHANGED begin

\* A call of findTargetLoad(cell, arc, in_slew, out_slew), and its loop.
FindTargetLoad(arc) ==
  /\ search.pc # "loop"
  /\ search' = findTargetLoadEnter(arc, TargetSlew)
  /\ db' = db
  /\ rsz' = rsz
  /\ last' = [op |-> "findTargetLoad", arg |-> <<arc.name>>, ret |-> FALSE]
  /\ before' = World
  /\ steps' = steps + 1
  /\ UNCHANGED begin

FindTargetLoadLoop ==
  /\ search.pc = "loop"
  /\ search' = findTargetLoadIterate(search, TargetSlew)
  /\ UNCHANGED <<db, rsz, last, before, begin, steps>>

FindSwapPinCandidate(arcs, input_port, drvr_port, equiv_ports) ==
  /\ Step("findSwapPinCandidate", <<arcs, input_port, drvr_port, equiv_ports>>,
          World,
          findSwapPinCandidate(arcs, input_port, drvr_port, equiv_ports, NullPort))
  /\ UNCHANGED begin

RepairTieFanout(tie_cell, tie_port, separation) ==
  /\ Step("repairTieFanout", <<tie_cell, tie_port, separation>>,
          repairTieFanout(World, tie_cell, tie_port, separation), FALSE)
  /\ UNCHANGED begin

InvalidateParasitics(pin, n) ==
  /\ Step("invalidateParasitics", <<pin, n>>, invalidateParasitics(World, pin, n), FALSE)
  /\ UNCHANGED begin

EraseParasitics(n) ==
  /\ Step("eraseParasitics", <<n>>, eraseParasitics(World, n), FALSE)
  /\ UNCHANGED begin

SetDontUse(cell, dont_use) ==
  /\ Step("setDontUse", <<cell, dont_use>>, setDontUse(World, cell, dont_use), FALSE)
  /\ UNCHANGED begin

FindTargetLoads ==
  /\ Step("findTargetLoads", <<>>, findTargetLoads(World), FALSE)
  /\ UNCHANGED begin

\* resizeToTargetSlew and findTargetCell run after the resize preamble has
\* built target_load_map_.
ResizeToTargetSlew(drvr_pin, load_cap) ==
  LET r == resizeToTargetSlew(World, drvr_pin, load_cap)
  IN /\ rsz.target_load_map_ # NullMap
     /\ Step("resizeToTargetSlew", <<drvr_pin, load_cap>>, r.s, r.ret)
     /\ UNCHANGED begin

FindTargetCell(cell, load_cap, revisiting_inst) ==
  /\ rsz.target_load_map_ # NullMap
  /\ Step("findTargetCell", <<cell, load_cap, revisiting_inst>>,
          [World EXCEPT !.rsz.target_load_map_ =
             [c \in DOMAIN @ \cup findTargetCellReads(World, cell) |->
                targetLoadOf(World, c)]],
          findTargetCell(World, cell, load_cap, revisiting_inst))
  /\ UNCHANGED begin

\* ---------------------------------------------------------------- inputs
DontTouchInsts == {"b1", "b3", "g1"}
DontTouchNets == {"n5"}
ReplaceInsts == {"g1", "g2"}
Replacements(inst) ==
  IF inst = "g1" THEN {"AND2_X2", "L2_AND2_X2", "AND2_X8"} ELSE {"TBUF_X2"}
SwapInsts == {"g1", "g2"}
SwapPorts(inst) == IF inst = "g1" THEN <<"A1", "A2">> ELSE <<"A", "EN">>
BufferCells == {"BUF_X1"}
CloneNames == {"clone1"}
DontUseCells == {"AND2_X1", "AND2_X2"}
LoadCaps == {0, 30, 54, 100}
DrvrPins == {<<"g1", "ZN">>, <<"top", "in1">>, <<"r1", "Q">>, <<"r1", "QN">>}
TargetCells == {"AND2_X1", "AND2_X2", "AND2_X4"}

InvalidatePins == {<<"g1", "ZN">>, <<"g2", "A">>, <<"g2", "Z">>}
InvalidateNets == {NoNet, "n3", "n5", "n6"}

TiePorts == {<<"LOGIC1_X1", "Z">>, <<"TIEHL_X1", "HI">>, <<"TIEHL_X1", "LO">>}

\* Gate delays of the arcs of a three-input gate into its output ZN: a rise and
\* a fall arc from A1 and from A2, one arc from A3.
GateDelays == {5, 12, 20}
SwapArcs ==
  {<<[from |-> "A1", delay |-> d1], [from |-> "A1", delay |-> d2],
     [from |-> "A2", delay |-> d3], [from |-> "A2", delay |-> d4],
     [from |-> "A3", delay |-> d5]>> :
     d1 \in GateDelays, d2 \in GateDelays, d3 \in GateDelays, d4 \in GateDelays,
     d5 \in GateDelays}
EquivPorts == {"A1", "A2", "A3"}

\* The pin journalRemoveBuffer's iterator stops at matters only when the call
\* records.
IterPins(buffer, recordJournal) ==
  IF recordJournal THEN firstOtherPins(World, buffer) ELSE {<<buffer, bufferInPort>>}

Next ==
  \/ JournalBegin
  \/ JournalEnd
  \/ JournalRestore
  \/ \E order \in Orders(DOMAIN rsz.removed_buffer_map_) : JournalRestoreBuffers(order)
  \/ \E buffer \in DOMAIN db.insts, honor \in BOOLEAN, record \in BOOLEAN :
       \E drvr_pin \in IterPins(buffer, record) :
         RemoveBuffer(buffer, honor, record, drvr_pin)
  \/ \E inst \in ReplaceInsts, journal \in BOOLEAN :
       \E replacement \in Replacements(inst) : ReplaceCell(inst, replacement, journal)
  \/ \E inst \in SwapInsts, journal \in BOOLEAN :
       SwapPins(inst, SwapPorts(inst)[1], SwapPorts(inst)[2], journal)
  \/ \E top_port \in TopInputs, buffer_cell \in BufferCells :
       BufferInput(top_port, buffer_cell)
  \/ \E name \in CloneNames : JournalCloneInstance("AND2_X1", name, "g1", 2)
  \/ \E inst \in DontTouchInsts \cap DOMAIN db.insts, dont_touch \in BOOLEAN :
       SetDontTouchInst(inst, dont_touch)
  \/ \E n \in DontTouchNets \cap DOMAIN db.nets, dont_touch \in BOOLEAN :
       SetDontTouchNet(n, dont_touch)
  \/ \E cell \in DontUseCells, dont_use \in BOOLEAN : SetDontUse(cell, dont_use)
  \/ FindTargetLoads
  \/ \E drvr_pin \in DrvrPins, load_cap \in LoadCaps :
       ResizeToTargetSlew(drvr_pin, load_cap)
  \/ \E cell \in TargetCells, load_cap \in LoadCaps :
       FindTargetCell(cell, load_cap, FALSE)
  \/ \E flag \in BOOLEAN : SetCallBackRegistered(flag)
  \/ \E pin \in InvalidatePins, n \in InvalidateNets : InvalidateParasitics(pin, n)
  \/ \E n \in InvalidateNets \ {NoNet} : EraseParasitics(n)
  \/ \E arc \in TimingArcs : FindTargetLoad(arc)
  \/ FindTargetLoadLoop
  \/ \E arcs \in SwapArcs, input_port \in {"A1", "A2"}, equiv_ports \in Orders(EquivPorts) :
       FindSwapPinCandidate(arcs, input_port, "ZN", equiv_ports)
  \/ \E tie \in TiePorts : RepairTieFanout(tie[1], tie[2], 1)

Spec == Init /\ [][steps < MaxSteps /\ Next]_vars

\* ---------------------------------------------------------------- journal
\* The journal at work: a transaction of journaled edits, committed or
\* restored.
InitJournal == InitWith("placement", FALSE)

NextJournal ==
  \/ steps < MaxJournalSteps /\ JournalBegin
  \/ steps < MaxJournalSteps /\ JournalEnd
  \/ steps < MaxJournalSteps /\ JournalRestore
  \/ \E replacement \in {"AND2_X2", "AND2_X8"} :
       steps < MaxJournalSteps /\ ReplaceCell("g1", replacement, TRUE)
  \/ \E inst \in SwapInsts :
       /\ steps < MaxJournalSteps
       /\ SwapPins(inst, SwapPorts(inst)[1], SwapPorts(inst)[2], TRUE)
  \/ \E top_port \in TopInputs :
       steps < MaxJournalSteps /\ BufferInput(top_port, "BUF_X1")
  \/ steps < MaxJournalSteps /\ JournalCloneInstance("AND2_X1", "clone1", "g1", 2)
  \/ \E buffer \in {"b1", "b3"} \cap DOMAIN db.insts :
       \E drvr_pin \in IterPins(buffer, TRUE) :
         steps < MaxJournalSteps /\ RemoveBuffer(buffer, TRUE, TRUE, drvr_pin)
  \/ steps < MaxJournalSteps /\ SetCallBackRegistered(TRUE)

SpecJournal == InitJournal /\ [][NextJournal]_vars

\* ---------------------------------------------------------------- removal
\* Buffer removal and its replay.
NextRemoval ==
  \/ \E buffer \in DOMAIN db.insts \ {"g2", "r1"}, honor \in BOOLEAN, record \in BOOLEAN :
       \E drvr_pin \in IterPins(buffer, record) :
         steps < MaxRemovalSteps /\ RemoveBuffer(buffer, honor, record, drvr_pin)
  \/ \E order \in Orders(DOMAIN rsz.removed_buffer_map_) :
       steps < MaxRemovalSteps /\ JournalRestoreBuffers(order)
  \/ \E inst \in {"b1", "b3"} \cap DOMAIN db.insts :
       steps < MaxRemovalSteps /\ SetDontTouchInst(inst, TRUE)
  \/ \E n \in DontTouchNets \cap DOMAIN db.nets :
       steps < MaxRemovalSteps /\ SetDontTouchNet(n, TRUE)

SpecRemoval == InitJournal /\ [][NextRemoval]_vars

\* ---------------------------------------------------------------- sizing
\* Gate sizing against target loads.
NextSizing ==
  \/ \E dont_use \in BOOLEAN :
       steps < MaxSizingSteps /\ SetDontUse("AND2_X2", dont_use)
  \/ steps < MaxSizingSteps /\ SetDontUse("AND2_X1", TRUE)
  \/ steps < MaxSizingSteps /\ FindTargetLoads
  \/ steps < MaxSizingSteps /\ SetDontTouchInst("g1", TRUE)
  \/ \E journal \in BOOLEAN, replacement \in Replacements("g1") :
       steps < MaxSizingSteps /\ ReplaceCell("g1", replacement, journal)
  \/ steps < MaxSizingSteps /\ ReplaceCell("g2", "TBUF_X2", TRUE)
  \/ \E drvr_pin \in DrvrPins, load_cap \in LoadCaps \ {100} :
       steps < MaxSizingSteps /\ ResizeToTargetSlew(drvr_pin, load_cap)
  \/ \E cell \in TargetCells, load_cap \in LoadCaps \ {0} :
       steps < MaxSizingSteps /\ FindTargetCell(cell, load_cap, FALSE)

SpecSizing == Init /\ [][NextSizing]_vars

\* ---------------------------------------------------------------- parasitics
\* The parasitics-invalid set under invalidation, erasure and a resize.
NextParasitics ==
  \/ \E pin \in InvalidatePins, n \in InvalidateNets :
       steps < MaxParasiticsSteps /\ InvalidateParasitics(pin, n)
  \/ \E n \in InvalidateNets \ {NoNet} :
       steps < MaxParasiticsSteps /\ EraseParasitics(n)
  \/ steps < MaxParasiticsSteps /\ ReplaceCell("g2", "TBUF_X2", FALSE)

SpecParasitics == Init /\ [][NextParasitics]_vars

\* ---------------------------------------------------------------- target load
\* Target-load searches, one after the other; the loop of a call keeps running.
NextTargetLoad ==
  \/ \E arc \in TimingArcs : steps < MaxTargetLoadCalls /\ FindTargetLoad(arc)
  \/ FindTargetLoadLoop

SpecTargetLoad ==
  InitJournal /\ [][NextTargetLoad]_vars /\ WF_vars(FindTargetLoadLoop)

\* ---------------------------------------------------------------- pin swap
\* The choice of the input port to swap with.
NextSwapPin ==
  \E arcs \in SwapArcs, input_port \in {"A1", "A2"}, equiv_ports \in Orders(EquivPorts) :
    /\ steps < MaxSwapPinCalls
    /\ FindSwapPinCandidate(arcs, input_port, "ZN", equiv_ports)

SpecSwapPin == InitJournal /\ [][NextSwapPin]_vars

\* ---------------------------------------------------------------- tie fanout
\* Tie-fanout repair on the design with tie cells.
InitTie ==
  /\ db = [insts |-> TieInsts, nets |-> TieNets, conn |-> TieConn,
           journal |-> <<>>, eco |-> FALSE]
  /\ rsz = [InitRsz("placement", FALSE) EXCEPT
              !.design_area_ = SumArea(TieInsts, DOMAIN TieInsts)]
  /\ last = [op |-> "init", arg |-> <<>>, ret |-> FALSE]
  /\ before = [db |-> db, rsz |-> rsz]
  /\ begin = db @@ [inserted_buffer_count_ |-> rsz.inserted_buffer_count_]
  /\ steps = 0
  /\ search = IdleSearch

NextTie ==
  \/ \E tie \in TiePorts :
       steps < MaxTieSteps /\ RepairTieFanout(tie[1], tie[2], 1)
  \/ \E inst \in {"t1", "t3"} \cap DOMAIN db.insts :
       steps < MaxTieSteps /\ SetDontTouchInst(inst, TRUE)
  \/ \E n \in {"nt1", "nt2"} \cap DOMAIN db.nets :
       steps < MaxTieSteps /\ SetDontTouchNet(n, TRUE)

SpecTie == InitTie /\ [][NextTie]_vars

\* ---------------------------------------------------------------- input buffers
\* Input buffering with dont-touch fanout.
NextBufferInput ==
  \/ \E top_port \in TopInputs, buffer_cell \in {"BUF_X1", "BUF_X2"} :
       steps < MaxBufferInputSteps /\ BufferInput(top_port, buffer_cell)
  \/ \E inst \in {"b1", "g1", "bp"}, dont_touch \in BOOLEAN :
       steps < MaxBufferInputSteps /\ SetDontTouchInst(inst, dont_touch)

SpecBufferInput == InitJournal /\ [][NextBufferInput]_vars

\* ---------------------------------------------------------------- commit
\* Transactions one after the other, every edit inside a transaction.
NextCommit ==
  \/ steps < MaxCommitSteps /\ ~db.eco /\ JournalBegin
  \/ steps < MaxCommitSteps /\ JournalEnd
  \/ steps < MaxCommitSteps /\ JournalRestore
  \/ \E replacement \in {"AND2_X2", "AND2_X8"} :
       steps < MaxCommitSteps /\ db.eco /\ ReplaceCell("g1", replacement, TRUE)
  \/ steps < MaxCommitSteps /\ db.eco /\ SwapPins("g1", "A1", "A2", TRUE)
  \/ steps < MaxCommitSteps /\ db.eco /\ BufferInput("in1", "BUF_X1")

SpecCommit == InitJournal /\ [][NextCommit]_vars

\* ---------------------------------------------------------------- restore after resize
\* Buffers removed with a record, gates resized, records replayed.
NextResizeRestore ==
  \/ \E buffer \in {"b1", "b3"} \cap DOMAIN db.insts :
       \E drvr_pin \in IterPins(buffer, TRUE) :
         steps < MaxResizeRestoreSteps /\ RemoveBuffer(buffer, FALSE, TRUE, drvr_pin)
  \/ \E replacement \in {"AND2_X2", "AND2_X8"} :
       steps < MaxResizeRestoreSteps /\ ReplaceCell("g1", replacement, FALSE)
  \/ \E order \in Orders(DOMAIN rsz.removed_buffer_map_) :
       steps < MaxResizeRestoreSteps /\ JournalRestoreBuffers(order)

SpecResizeRestore == InitJournal /\ [][NextResizeRestore]_vars

\* ---------------------------------------------------------------- claims
\* Library cell bound to each instance of a block.
Cells(d) == [i \in DOMAIN d.insts |-> d.insts[i].cell]

C2_RestoreDecrementsAndClears ==
  last.op = "journalRestore" =>
    /\ rsz.resize_count_ =
         before.rsz.resize_count_ - Cardinality(DOMAIN before.rsz.resized_inst_map_)
    /\ rsz.inserted_buffer_count_ =
         before.rsz.inserted_buffer_count_ - Len(before.rsz.inserted_buffers_)
    /\ rsz.cloned_gate_count_ =
         before.rsz.cloned_gate_count_ - Len(before.rsz.cloned_gates_)
    /\ rsz.swap_pin_count_ =
         before.rsz.swap_pin_count_ - Cardinality(DOMAIN before.rsz.swapped_pins_)
    /\ rsz.removed_buffer_count_ =
         before.rsz.removed_buffer_count_
           - Cardinality(DOMAIN before.rsz.removed_buffer_map_)
    /\ rsz.resized_inst_map_ = <<>>
    /\ rsz.inserted_buffers_ = <<>>
    /\ rsz.cloned_gates_ = <<>>
    /\ rsz.swapped_pins_ = <<>>
    /\ rsz.removed_buffer_map_ = <<>>

\* The buffer the last removeBuffer call was given, its pins, and the nets
\* they were on when the call was made.
PreBuffer == last.arg[1]
PreInPin == <<PreBuffer, bufferInPort>>
PreOutPin == <<PreBuffer, bufferOutPort>>
PreInNet == net(before, PreInPin)
PreOutNet == net(before, PreOutPin)
PreIsBuffer == isBuffer(libertyCell(before, PreBuffer))

\* C3: a recorded removal of a buffer that is not dont-touch, followed by the
\* journalRestoreBuffers that replays that one record, gives back a buffer of the same cell at the same
\* location, whose input net holds the pins the input net held (the driver and
\* its side loads) and whose output net holds exactly the former loads.
C3_RoundTripStep ==
  (/\ last.op = "removeBuffer"
   /\ last.ret = TRUE
   /\ last.arg[3]
   /\ ~before.db.insts[PreBuffer].dont_touch
   /\ DOMAIN rsz.removed_buffer_map_ = {PreBuffer}
   /\ last'.op = "journalRestoreBuffers")
  => LET post == [db |-> db', rsz |-> rsz']
     IN /\ PreBuffer \in DOMAIN db'.insts
        /\ db'.insts[PreBuffer].cell = before.db.insts[PreBuffer].cell
        /\ db'.insts[PreBuffer].loc = before.db.insts[PreBuffer].loc
        /\ connectedPins(post, net(post, PreInPin)) = connectedPins(before, PreInNet)
        /\ connectedPins(post, net(post, PreOutPin)) = connectedPins(before, PreOutNet)

C3_RemoveRestoreRoundTrip == [][C3_RoundTripStep]_vars

\* The conditions under which C4 says removeBuffer refuses.
C4_MustRefuse ==
  \/ ~PreIsBuffer
  \/ bufferBetweenPorts(before, PreBuffer)
  \/ /\ last.arg[2]
     /\ \/ before.db.insts[PreBuffer].dont_touch
        \/ isFixed(before, PreBuffer)
        \/ before.db.nets[PreInNet].dont_touch
        \/ before.db.nets[PreOutNet].dont_touch

\* C4: removeBuffer returns false and removes no instance, net or connection
\* when the cell is not a buffer, when both nets of the buffer carry a
\* top-level port, or when dont-touch/fixed is honoured and set on the
\* instance or one of its nets; the port-to-port buffer bp always exists.
C4_RefusedRemovals ==
  /\ (last.op = "removeBuffer" /\ C4_MustRefuse) =>
       /\ last.ret = FALSE
       /\ DOMAIN db.insts = DOMAIN before.db.insts
       /\ DOMAIN db.nets = DOMAIN before.db.nets
       /\ db.conn = before.db.conn
  /\ "bp" \in DOMAIN db.insts
  /\ bufferBetweenPorts(World, "bp")

\* bp refused without honouring dont-touch, after two other buffers went.
C4_Witness ==
  /\ last.op = "removeBuffer"
  /\ PreBuffer = "bp"
  /\ ~last.arg[2]
  /\ ~last.ret
  /\ {"b2", "b3"} \cap DOMAIN db.insts = {}

\* C5 as stated: every buffer with a top-level port on its output net is
\* refused and kept.
C5_OutputPortRefused ==
  (last.op = "removeBuffer" /\ PreIsBuffer /\ hasPort(before, PreOutNet)) =>
    /\ last.ret = FALSE
    /\ PreBuffer \in DOMAIN db.insts

\* C5 amended: a buffer is refused for its ports only when both its input net
\* and its output net carry one, whatever honorDontTouchFixed is; with a port
\* on the output net alone and honorDontTouchFixed false it is removed (unless
\* sdc constrains it) and the output net is the one that stays.
C5_BothPortsRefused ==
  (last.op = "removeBuffer" /\ PreIsBuffer /\ hasPort(before, PreOutNet)) =>
    /\ hasPort(before, PreInNet) =>
         (last.ret = FALSE /\ PreBuffer \in DOMAIN db.insts)
    /\ (/\ ~hasPort(before, PreInNet)
        /\ ~last.arg[2]
        /\ ~isConstrainedPin(PreInPin)
        /\ ~isConstrainedPin(PreOutPin)) =>
         /\ last.ret = TRUE
         /\ PreBuffer \notin DOMAIN db.insts
         /\ PreOutNet \in DOMAIN db.nets
         /\ PreInNet \notin DOMAIN db.nets

\* b2, whose output net n4 has the port out1, is removed.
C5_Witness ==
  /\ last.op = "removeBuffer"
  /\ PreBuffer = "b2"
  /\ hasPort(before, PreOutNet)
  /\ ~hasPort(before, PreInNet)
  /\ last.ret = TRUE

\* C6: a removeBuffer call that returns false leaves the connectivity, the
\* dont-touch flags of the instance and of its two nets, the placement status
\* of the instance and the parasitics-invalid set as they were.
C6_FailedRemoveMutatesNothing ==
  (last.op = "removeBuffer" /\ PreIsBuffer /\ last.ret = FALSE) =>
    /\ db.conn = before.db.conn
    /\ db.insts[PreBuffer].dont_touch = before.db.insts[PreBuffer].dont_touch
    /\ db.insts[PreBuffer].status = before.db.insts[PreBuffer].status
    /\ db.nets[PreInNet].dont_touch = before.db.nets[PreInNet].dont_touch
    /\ db.nets[PreOutNet].dont_touch = before.db.nets[PreOutNet].dont_touch
    /\ rsz.parasitics_invalid_ = before.rsz.parasitics_invalid_

\* The net C7 says survives a removal, and the other one.
C7_Survivor == IF hasPort(before, PreOutNet) THEN PreOutNet ELSE PreInNet
C7_Removed == IF hasPort(before, PreOutNet) THEN PreInNet ELSE PreOutNet

\* C7: after removeBuffer returns true the surviving net holds exactly the
\* pins of the former input and output nets less the buffer's two pins, the
\* other net and the buffer are gone, and the gone net is not in the
\* parasitics-invalid set.
C7_RemovedBufferMerged ==
  (last.op = "removeBuffer" /\ last.ret = TRUE) =>
    /\ connectedPins(World, C7_Survivor) =
         (connectedPins(before, PreInNet) \cup connectedPins(before, PreOutNet))
           \ {PreInPin, PreOutPin}
    /\ C7_Survivor \in DOMAIN db.nets
    /\ C7_Removed \notin DOMAIN db.nets
    /\ connectedPins(World, C7_Removed) = {}
    /\ PreBuffer \notin DOMAIN db.insts
    /\ C7_Removed \notin rsz.parasitics_invalid_

\* b3 removed: its loads join the side loads on n3, n5 is gone.
C7_Witness ==
  /\ last.op = "removeBuffer"
  /\ last.ret = TRUE
  /\ PreBuffer = "b3"
  /\ C7_Survivor = "n3"
  /\ <<"g2", "A">> \in connectedPins(World, "n3")
  /\ <<"b2", "A">> \in connectedPins(World, "n3")

\* C8: replaceCell returns false and leaves the binding, the design area,
\* the resize log and the parasitics-invalid set alone when the replacement's
\* name has no master; otherwise it returns true, the instance is bound to the
\* master of the replacement's name, its pins are on the nets they were on,
\* and with estimated parasitics the net of each connected pin that is not a
\* tristate is in the parasitics-invalid set.
C8_ReplaceCellContract ==
  last.op = "replaceCell" =>
    LET inst == last.arg[1]
        replacement == last.arg[2]
    IN IF CellName(replacement) \notin Masters
       THEN /\ last.ret = FALSE
            /\ db.insts[inst].cell = before.db.insts[inst].cell
            /\ rsz.design_area_ = before.rsz.design_area_
            /\ rsz.resized_inst_map_ = before.rsz.resized_inst_map_
            /\ rsz.parasitics_invalid_ = before.rsz.parasitics_invalid_
       ELSE /\ last.ret = TRUE
            /\ db.insts[inst].cell = CellName(replacement)
            /\ \A p \in instancePins(before, inst) : net(World, p) = net(before, p)
            /\ haveEstimatedParasitics(World) =>
                 \A p \in instancePins(World, inst) :
                   (net(World, p) # NoNet
                      /\ ~isAnyTristate(libertyCell(World, inst), p[2]))
                     => net(World, p) \in rsz.parasitics_invalid_

\* g2 resized with estimated parasitics: the net of its input is invalid, the
\* net of its tristate output is not.
C8_Witness ==
  /\ last.op = "replaceCell"
  /\ last.ret = TRUE
  /\ last.arg[1] = "g2"
  /\ haveEstimatedParasitics(World)
  /\ "n5" \in rsz.parasitics_invalid_
  /\ "n6" \notin rsz.parasitics_invalid_

\* The pin and load the last resizeToTargetSlew call was given.
C9_Inst == last.arg[1][1]
C9_Skipped ==
  \/ C9_Inst = TopInstance
  \/ dontTouch(before, C9_Inst)
  \/ last.arg[2] <= 0
C9_SameCell ==
  /\ ~C9_Skipped
  /\ findTargetCell(before, libertyCell(before, C9_Inst), last.arg[2],
                    /\ hasMultipleOutputs(before, C9_Inst)
                    /\ C9_Inst \in before.rsz.resized_multi_output_insts_)
       = libertyCell(before, C9_Inst)

C10_Candidates ==
  LET cells == getSwappableCells(before, last.arg[1])
  IN {last.arg[1]} \cup
       {cells[k] : k \in {j \in 1..Len(cells) :
                            ~dontUse(before, cells[j]) /\ isLinkCell(cells[j])}}
C10_Dist(c) == targetLoadDist(last.arg[2], targetLoadOf(before, c))
C10_Scenario ==
  /\ last.arg[1] \in {"AND2_X1", "AND2_X2", "AND2_X4"}
  /\ last.arg[2] = 54
  /\ ~before.rsz.match_cell_footprint_
  /\ {"AND2_X1", "AND2_X2", "AND2_X4"} \cap before.rsz.dont_use_ = {}
  /\ targetLoadOf(before, "AND2_X1") = 20
  /\ targetLoadOf(before, "AND2_X2") = 50
  /\ targetLoadOf(before, "AND2_X4") = 90

\* C10: for a cell that is no buffer or inverter, on a first visit,
\* findTargetCell returns one of the bound cell and its swappable, link,
\* usable cells, and none of these has a target load nearer to load_cap; with
\* target loads 2, 5 and 9 fF and a load of 5.4 fF it returns the 5 fF cell
\* whichever of the three is bound.
C10_NearestTargetLoad ==
  (/\ last.op = "findTargetCell"
   /\ ~isBuffer(last.arg[1])
   /\ ~isInverter(last.arg[1])
   /\ ~last.arg[3]) =>
    /\ last.ret \in C10_Candidates
    /\ \A c \in C10_Candidates : C10_Dist(last.ret) <= C10_Dist(c)
    /\ C10_Scenario => last.ret = "AND2_X2"

\* The 9 fF cell is bound and the 5 fF cell is returned for 5.4 fF.
C10_Witness ==
  /\ last.op = "findTargetCell"
  /\ last.arg[1] = "AND2_X4"
  /\ C10_Scenario
  /\ last.ret = "AND2_X2"

\* The instance the last resizeToTargetSlew call visited, the cell it was
\* bound to when the call was made, and the cell it is bound to now.
C11_OldCell == libertyCell(before, C9_Inst)
C11_NewCell == libertyCell(World, C9_Inst)
C11_Swappable ==
  {getSwappableCells(before, C11_OldCell)[k] :
     k \in 1..Len(getSwappableCells(before, C11_OldCell))}

\* C11: a resizeToTargetSlew call changes no binding but that of the driver's
\* instance, and leaves every instance in the equivalent-cell group it was in
\* (so does any sequence of calls); a cell it newly binds is one of
\* getSwappableCells of the cell bound before, a link cell, and not dont-use
\* when the call was made.
C11_ResizeStaysInGroup ==
  last.op = "resizeToTargetSlew" =>
    /\ DOMAIN db.insts = DOMAIN before.db.insts
    /\ \A i \in DOMAIN db.insts :
         /\ equivCells(db.insts[i].cell) = equivCells(before.db.insts[i].cell)
         /\ i # C9_Inst => db.insts[i].cell = before.db.insts[i].cell
    /\ (C9_Inst # TopInstance /\ C11_NewCell # C11_OldCell) =>
         /\ C11_NewCell \in C11_Swappable
         /\ isLinkCell(C11_NewCell)
         /\ C11_NewCell \notin before.rsz.dont_use_

\* g1 is resized while a cell of its group is dont-use.
C11_Witness ==
  /\ last.op = "resizeToTargetSlew"
  /\ last.ret = 1
  /\ C9_Inst = "g1"
  /\ C11_NewCell # C11_OldCell
  /\ before.rsz.dont_use_ # {}

\* C12 as stated: resizeToTargetSlew returns non-zero exactly when the call
\* changed the cell bound to the driver's instance, also on a second or later
\* visit of an instance with several outputs.
C12_ChangedIffReturned ==
  (last.op = "resizeToTargetSlew" /\ C9_Inst # TopInstance) =>
    (last.ret # 0 <=> C11_NewCell # C11_OldCell)

\* C13: when journalBegin returns, from Idle or inside an open transaction,
\* the five logs are empty, the observer is not registered and a fresh ECO is
\* open; and a journalRestore leaves inserted_buffer_count_ at the value it had
\* at the last journalBegin, so insertions journaled before that begin are not
\* subtracted.
C13_BeginResetsJournal ==
  /\ last.op = "journalBegin" =>
       /\ rsz.resized_inst_map_ = <<>>
       /\ rsz.inserted_buffers_ = <<>>
       /\ rsz.cloned_gates_ = <<>>
       /\ rsz.swapped_pins_ = <<>>
       /\ rsz.removed_buffer_map_ = <<>>
       /\ ~rsz.callback_registered_
       /\ db.eco
       /\ db.journal = <<>>
  /\ last.op = "journalRestore" =>
       rsz.inserted_buffer_count_ = begin.inserted_buffer_count_

\* A nested journalBegin, with a buffer insertion in the log and the observer
\* registered when it is called.
C13_Witness ==
  /\ last.op = "journalBegin"
  /\ before.db.eco
  /\ before.db.journal # <<>>
  /\ before.rsz.inserted_buffers_ # <<>>
  /\ before.rsz.callback_registered_

\* C14: invalidateParasitics(pin, net) puts net into the parasitics-invalid
\* set exactly when net is not null and the pin's liberty port is not a
\* tristate, and otherwise leaves the set as it was; eraseParasitics(net) takes
\* exactly net out of the set; neither touches the netlist.
C14_InvalidateEraseExact ==
  /\ last.op = "invalidateParasitics" =>
       /\ rsz.parasitics_invalid_ =
            IF /\ last.arg[2] # NoNet
               /\ ~(last.arg[1][1] = "g2" /\ last.arg[1][2] = "Z")
            THEN before.rsz.parasitics_invalid_ \cup {last.arg[2]}
            ELSE before.rsz.parasitics_invalid_
       /\ db = before.db
  /\ last.op = "eraseParasitics" =>
       /\ rsz.parasitics_invalid_ = before.rsz.parasitics_invalid_ \ {last.arg[1]}
       /\ db = before.db

\* The tristate output of g2 given with its net n6, other nets being invalid:
\* nothing is added.
C14_Witness ==
  /\ last.op = "invalidateParasitics"
  /\ last.arg = <<<<"g2", "Z">>, "n6">>
  /\ before.rsz.parasitics_invalid_ # {}
  /\ "n6" \notin rsz.parasitics_invalid_

\* C15 as stated: whenever findTargetLoads has just returned, the target-load
\* map holds the characterised target load of every link cell that is not
\* dont-use at that moment, whatever setDontUse calls came before.
C15_MapCoversUsableCells ==
  last.op = "findTargetLoads" =>
    \A c \in LibertyCells :
      (isLinkCell(c) /\ c \notin rsz.dont_use_) =>
        /\ c \in DOMAIN rsz.target_load_map_
        /\ rsz.target_load_map_[c] = TargetLoad(c)

\* What C16 promises of the value findTargetLoad returned for the arc searched:
\* its slew does not exceed the target, and some load at or above it, within
\* 1% of that load, has a slew of at least the target.
C16_LowerBoundWithin1Percent ==
  /\ gateSlew(search.arc, search.load_cap1) <= TargetSlew
  /\ \E l \in search.load_cap1 .. ((TolInverse * search.load_cap1) \div (TolInverse - 1)) :
       /\ gateSlew(search.arc, l) >= TargetSlew
       /\ TolInverse * (l - search.load_cap1) <= l

C16_Returned == search.pc = "done" /\ search.arc.model
C16_ZeroLoadTooSlow == gateSlew(search.arc, 0) > TargetSlew
C16_ReachesTarget == gateSlew(search.arc, MaxLoadCap) >= TargetSlew

C17_Worst(port) ==
  LET ds == {last.arg[1][k].delay : k \in {j \in 1..Len(last.arg[1]) :
                                             last.arg[1][j].from = port}}
  IN CHOOSE d \in ds : \A e \in ds : e <= d
C17_Qualifying ==
  {p \in EquivPorts \ {last.arg[2], last.arg[3]} :
     C17_Worst(p) < C17_Worst(last.arg[2])}

\* C17 as stated: findSwapPinCandidate leaves *swap_port alone when no
\* equivalent input port other than the current one has a lower worst-case
\* gate delay to the driver port than the current one, and otherwise sets it
\* to such a port of least worst-case delay.
C17_SwapPortIsFastest ==
  last.op = "findSwapPinCandidate" =>
    IF C17_Qualifying = {} THEN last.ret = NullPort
    ELSE /\ last.ret \in C17_Qualifying
         /\ \A p \in C17_Qualifying : C17_Worst(last.ret) <= C17_Worst(p)

\* The two pins the last swapPins call was given and the nets they were on.
C18_Pin1 == <<last.arg[1], last.arg[2]>>
C18_Pin2 == <<last.arg[1], last.arg[3]>>
C18_BothConnected == net(before, C18_Pin1) # NoNet /\ net(before, C18_Pin2) # NoNet

\* After swapPins with both pins connected each pin is on the net the other was
\* on and no other pin has moved; with a pin unconnected nothing has moved; no
\* instance or net was created or destroyed.
C18_Swapped ==
  last.op = "swapPins" =>
    /\ DOMAIN db.insts = DOMAIN before.db.insts
    /\ DOMAIN db.nets = DOMAIN before.db.nets
    /\ IF C18_BothConnected
       THEN /\ net(World, C18_Pin1) = net(before, C18_Pin2)
            /\ net(World, C18_Pin2) = net(before, C18_Pin1)
            /\ \A p \in (DOMAIN db.conn \cup DOMAIN before.db.conn) \ {C18_Pin1, C18_Pin2} :
                 net(World, p) = net(before, p)
       ELSE db.conn = before.db.conn

\* A second swapPins with the same instance and ports, right after the first,
\* gives back the connectivity the first one found.
C18_SecondSwapStep ==
  (last.op = "swapPins" /\ last'.op = "swapPins" /\ last'.arg = last.arg)
    => db'.conn = before.db.conn

\* C18: swapPins exchanges the nets of the two pins and touches no other
\* connection, does nothing to the netlist when one of the pins is unconnected,
\* and undoes itself when applied twice.
C18_SwapPinsInvolution == []C18_Swapped /\ [][C18_SecondSwapStep]_vars

\* g1's inputs swapped back: the call found A1 on n1, where the first swap had
\* put it, and leaves it on n2.
C18_Witness ==
  /\ last.op = "swapPins"
  /\ last.arg[1] = "g1"
  /\ C18_BothConnected
  /\ net(before, <<"g1", "A1">>) = "n1"
  /\ net(World, <<"g1", "A1">>) = "n2"
  /\ db.conn = InitConn

\* C19 -- repairTieFanout: every tie instance that is not dont-touch and whose
\* tie-port net is not dont-touch loses that net; each of its N former loads
\* is alone with the tie port of a new tie instance on a new net; the call
\* creates exactly one instance per such load; the original instance is
\* deleted iff none of its other pins was on a net that is neither power nor
\* ground; dont-touch tie instances and dont-touch tie nets are unchanged.
C19_TiePin(inst) == <<inst, last.arg[2]>>

C19_Ties == {i \in DOMAIN before.db.insts : libertyCell(before, i) = last.arg[1]}

C19_Repaired ==
  {i \in C19_Ties : /\ ~before.db.insts[i].dont_touch
                    /\ net(before, C19_TiePin(i)) # NoNet
                    /\ ~before.db.nets[net(before, C19_TiePin(i))].dont_touch}

C19_Loads(inst) ==
  connectedPins(before, net(before, C19_TiePin(inst))) \ {C19_TiePin(inst)}

C19_NewInsts == DOMAIN db.insts \ DOMAIN before.db.insts

C19_OwnTie(load) ==
  /\ net(World, load) \in DOMAIN db.nets \ DOMAIN before.db.nets
  /\ \E tie \in C19_NewInsts :
       /\ libertyCell(World, tie) = last.arg[1]
       /\ connectedPins(World, net(World, load)) = {load, C19_TiePin(tie)}

C19_OtherFanout(inst) ==
  \E pin \in instancePins(before, inst) \ {C19_TiePin(inst)} :
    net(before, pin) \notin {NoNet, "VDD", "VSS"}

C19_Untouched(inst) ==
  /\ inst \in DOMAIN db.insts
  /\ db.insts[inst] = before.db.insts[inst]
  /\ \A pin \in instancePins(before, inst) : net(World, pin) = net(before, pin)
  /\ LET n == net(before, C19_TiePin(inst))
     IN n # NoNet =>
          /\ n \in DOMAIN db.nets
          /\ db.nets[n] = before.db.nets[n]
          /\ connectedPins(World, n) = connectedPins(before, n)

C19_OneTiePerLoad ==
  last.op = "repairTieFanout" =>
    /\ \A inst \in C19_Repaired :
         /\ net(before, C19_TiePin(inst)) \notin DOMAIN db.nets
         /\ \A load \in C19_Loads(inst) : C19_OwnTie(load)
         /\ inst \notin DOMAIN db.insts <=> ~C19_OtherFanout(inst)
    /\ Cardinality(C19_NewInsts) =
         Cardinality(UNION {C19_Loads(inst) : inst \in C19_Repaired})
    /\ \A inst \in C19_Ties \ C19_Repaired : C19_Untouched(inst)

\* A call that repairs t1 with its two loads and deletes it while the
\* dont-touch t3 stays.
C19_Witness ==
  /\ last.op = "repairTieFanout"
  /\ last.arg[1] = "LOGIC1_X1"
  /\ "t1" \in C19_Repaired
  /\ Cardinality(C19_Loads("t1")) = 2
  /\ "t1" \notin DOMAIN db.insts
  /\ "t3" \in C19_Ties \ C19_Repaired

\* A call that repairs the HI output of t2 and keeps t2 for its LO output.
C19_WitnessKept ==
  /\ last.op = "repairTieFanout"
  /\ last.arg[2] = "HI"
  /\ "t2" \in C19_Repaired
  /\ "t2" \in DOMAIN db.insts

\* C20 -- bufferInput: when it inserts a buffer, the input net connects
\* exactly the top-level port pin and the buffer's input, the former fanout is
\* on the one new net together with the buffer's output, both nets are in the
\* parasitics-invalid set, inserted_buffer_count_ grew by 1 and the buffer is
\* in inserted_buffers_; when a fanout instance is dont-touch or every fanout
\* pin belongs to a buffer it returns null and changes nothing.
C20_TopPin == <<TopInstance, last.arg[1]>>

C20_InputNet == net(before, C20_TopPin)

C20_Fanout == connectedPins(before, C20_InputNet) \ {C20_TopPin}

C20_DontTouchFanout ==
  \E pin \in C20_Fanout : pin[1] # TopInstance /\ before.db.insts[pin[1]].dont_touch

C20_OnlyBufferFanout ==
  \A pin \in C20_Fanout :
    pin[1] # TopInstance /\ before.db.insts[pin[1]].cell \in {"BUF_X1", "BUF_X2"}

C20_Inserted(buffer, buffer_out) ==
  /\ DOMAIN db.insts \ DOMAIN before.db.insts = {buffer}
  /\ DOMAIN db.nets \ DOMAIN before.db.nets = {buffer_out}
  /\ libertyCell(World, buffer) = last.arg[2]
  /\ connectedPins(World, C20_InputNet) = {C20_TopPin, <<buffer, "A">>}
  /\ connectedPins(World, buffer_out) = C20_Fanout \cup {<<buffer, "Z">>}
  /\ {C20_InputNet, buffer_out} \subseteq rsz.parasitics_invalid_
  /\ rsz.inserted_buffer_count_ = before.rsz.inserted_buffer_count_ + 1
  /\ \E k \in DOMAIN rsz.inserted_buffers_ : rsz.inserted_buffers_[k] = buffer

C20_BufferInputRewires ==
  last.op = "bufferInput" =>
    /\ last.ret => \E buffer \in DOMAIN db.insts, buffer_out \in DOMAIN db.nets :
                     C20_Inserted(buffer, buffer_out)
    /\ (C20_DontTouchFanout \/ C20_OnlyBufferFanout) =>
         ~last.ret /\ db = before.db /\ rsz = before.rsz

\* An insertion on in1, whose two fanout pins are a buffer's and a gate's.
C20_Witness ==
  /\ last.op = "bufferInput"
  /\ last.ret
  /\ Cardinality(C20_Fanout) = 2
  /\ ~C20_DontTouchFanout
  /\ ~C20_OnlyBufferFanout

\* A refusal because a fanout instance is dont-touch although not every
\* fanout pin belongs to a buffer.
C20_WitnessRefused ==
  /\ last.op = "bufferInput"
  /\ ~last.ret
  /\ C20_DontTouchFanout
  /\ ~C20_OnlyBufferFanout

\* C21 -- resize log: inside a transaction every instance with a journaled
\* replaceCell has one entry in resized_inst_map_, the entry records the cell
\* the instance was bound to at journalBegin, and a journaled replaceCell
\* records the cell bound before it changed the binding unless an entry
\* already existed.
C21_BeginCell(inst) == libertyCell([db |-> begin], inst)

C21_FirstWriteWins ==
  /\ db.eco =>
       \A inst \in DOMAIN rsz.resized_inst_map_ :
         rsz.resized_inst_map_[inst] = C21_BeginCell(inst)
  /\ (last.op = "replaceCell" /\ last.arg[3] /\ last.ret) =>
       /\ last.arg[1] \in DOMAIN rsz.resized_inst_map_
       /\ rsz.resized_inst_map_[last.arg[1]] =
            IF last.arg[1] \in DOMAIN before.rsz.resized_inst_map_
            THEN before.rsz.resized_inst_map_[last.arg[1]]
            ELSE libertyCell(before, last.arg[1])
       /\ \A inst \in DOMAIN rsz.resized_inst_map_ \ {last.arg[1]} :
            /\ inst \in DOMAIN before.rsz.resized_inst_map_
            /\ rsz.resized_inst_map_[inst] = before.rsz.resized_inst_map_[inst]

\* The second journaled resize of g1 in one transaction: the entry still
\* names the cell of journalBegin, which is neither the cell before this call
\* nor the cell after it.
C21_Witness ==
  /\ last.op = "replaceCell"
  /\ last.arg[3]
  /\ db.eco
  /\ last.arg[1] \in DOMAIN before.rsz.resized_inst_map_
  /\ rsz.resized_inst_map_[last.arg[1]] # libertyCell(before, last.arg[1])
  /\ rsz.resized_inst_map_[last.arg[1]] # libertyCell(World, last.arg[1])

\* C22 -- unconditional appends: every journaled makeBuffer adds one entry to
\* inserted_buffers_, every journalCloneInstance one entry to cloned_gates_
\* and every journaled swapPins one entry to swapped_pins_, also for a
\* repeated swap on the same instance.
C22_EveryEditAppends ==
  /\ (last.op = "bufferInput" /\ last.ret) =>
       Len(rsz.inserted_buffers_) = Len(before.rsz.inserted_buffers_) + 1
  /\ last.op = "journalCloneInstance" =>
       Len(rsz.cloned_gates_) = Len(before.rsz.cloned_gates_) + 1
  /\ (last.op = "swapPins" /\ last.arg[4]) =>
       Cardinality(DOMAIN rsz.swapped_pins_) =
         Cardinality(DOMAIN before.rsz.swapped_pins_) + 1

\* C23 -- journalRestoreBuffers: a record whose driver instance or some load
\* instance does not exist when the restore is called is skipped (no
\* instance made for it), every other record is restored with its input on
\* the driver's net and its loads on its output net, removed_buffer_count_
\* drops by the number of restored buffers and removed_buffer_map_ is empty
\* on return.
C23_Records == before.rsz.removed_buffer_map_

C23_Missing ==
  {name \in DOMAIN C23_Records :
     \/ C23_Records[name].driver_pin[1] \notin DOMAIN before.db.insts \cup {TopInstance}
     \/ \E load_pin \in C23_Records[name].load_pins :
          load_pin[1] \notin DOMAIN before.db.insts \cup {TopInstance}}

C23_Restored(name) ==
  /\ name \in DOMAIN db.insts
  /\ libertyCell(World, name) = C23_Records[name].lib_cell
  /\ net(World, <<name, "A">>) # NoNet
  /\ net(World, <<name, "Z">>) # NoNet

C23_Outcome(skipped) ==
  /\ \A name \in skipped : name \notin DOMAIN db.insts
  /\ \A name \in DOMAIN C23_Records \ skipped : C23_Restored(name)
  /\ skipped = DOMAIN C23_Records =>
       db.conn = before.db.conn /\ db.nets = before.db.nets
  /\ rsz.removed_buffer_count_ =
       before.rsz.removed_buffer_count_ - Cardinality(DOMAIN C23_Records \ skipped)
  /\ rsz.removed_buffer_map_ = <<>>

RECURSIVE C23_MissingInOrder(_, _)
C23_MissingInOrder(order, existing) ==
  IF order = <<>> THEN {}
  ELSE LET name == Head(order)
           present ==
             /\ C23_Records[name].driver_pin[1] \in existing
             /\ \A load_pin \in C23_Records[name].load_pins : load_pin[1] \in existing
       IN IF present THEN C23_MissingInOrder(Tail(order), existing \cup {name})
          ELSE {name} \cup C23_MissingInOrder(Tail(order), existing)

C24_Inst == last.arg[1][1]

C24_Visited ==
  /\ last.op = "resizeToTargetSlew"
  /\ C24_Inst # TopInstance
  /\ ~before.db.insts[C24_Inst].dont_touch
  /\ hasMultipleOutputs(before, C24_Inst)

C24_Revisit == C24_Visited /\ C24_Inst \in before.rsz.resized_multi_output_insts_

C24_RevisitNeverDownsizes ==
  /\ C24_Visited => C24_Inst \in rsz.resized_multi_output_insts_
  /\ C24_Revisit =>
       targetLoadOf(World, libertyCell(World, C24_Inst))
         >= targetLoadOf(World, libertyCell(before, C24_Inst))

\* A revisit of r1 with a load nearer to the target load of the smaller
\* cell: r1 keeps the larger cell.
C24_Witness ==
  /\ C24_Revisit
  /\ libertyCell(before, C24_Inst) = "DFF_X2"
  /\ libertyCell(World, C24_Inst) = "DFF_X2"
  /\ last.arg[2] = 30

\* A revisit of r1 that upsizes it.
C24_WitnessUpsized ==
  /\ C24_Revisit
  /\ libertyCell(before, C24_Inst) = "DFF_X1"
  /\ libertyCell(World, C24_Inst) = "DFF_X2"

\* A first visit that leaves r1 as it is and still enters it in the set.
C24_WitnessFirstVisit ==
  /\ C24_Visited
  /\ ~C24_Revisit
  /\ libertyCell(World, C24_Inst) = libertyCell(before, C24_Inst)
  /\ C24_Inst \in rsz.resized_multi_output_insts_

\* C25 -- order inside journalRestore: with a non-empty ECO the observer is
\* registered when undoEco runs and unregistered on return, the ECO is closed
\* by endEco before undoEco, and updateParasitics and findRequireds run after
\* undoEco and before the logs are cleared; with an empty ECO undoEco is not
\* called and the ECO is closed by endEco.
C25_Calls == journalRestoreCalls(before)

C25_At(name) == {k \in DOMAIN C25_Calls : C25_Calls[k].call = name}

C25_Before(name1, name2) ==
  /\ C25_At(name1) # {}
  /\ C25_At(name2) # {}
  /\ \A i \in C25_At(name1), j \in C25_At(name2) : i < j

C25_RestoreOrder ==
  last.op = "journalRestore" =>
    /\ Now(C25_Calls) = World
    /\ ~db.eco
    /\ IF before.db.journal = <<>>
       THEN C25_At("undoEco") = {} /\ C25_At("endEco") # {}
       ELSE /\ C25_Before("endEco", "undoEco")
            /\ \A k \in C25_At("undoEco") :
                 /\ C25_Calls[k - 1].s.rsz.callback_registered_
                 /\ ~C25_Calls[k - 1].s.db.eco
            /\ ~rsz.callback_registered_
            /\ C25_Before("undoEco", "updateParasitics")
            /\ C25_Before("undoEco", "findRequireds")
            /\ C25_Before("updateParasitics", "clear")
            /\ C25_Before("findRequireds", "clear")
            /\ \A k \in C25_At("updateParasitics") \cup C25_At("findRequireds") :
                 /\ C25_Calls[k].s.db = db
                 /\ C25_Calls[k].s.rsz.resized_inst_map_ = before.rsz.resized_inst_map_
                 /\ C25_Calls[k].s.rsz.swapped_pins_ = before.rsz.swapped_pins_

\* A restore of a transaction that resized g1, the observer not being
\* registered at the call.
C25_Witness ==
  /\ last.op = "journalRestore"
  /\ before.db.journal # <<>>
  /\ ~before.rsz.callback_registered_
  /\ before.rsz.resized_inst_map_ # <<>>
  /\ db # before.db

\* A restore of an empty transaction with the observer registered.
C25_WitnessEmpty ==
  /\ last.op = "journalRestore"
  /\ before.db.journal = <<>>
  /\ before.rsz.callback_registered_
  /\ rsz.callback_registered_

\* A restore of a non-empty transaction with the observer already registered.
C25_WitnessRegistered ==
  /\ last.op = "journalRestore"
  /\ before.db.journal # <<>>
  /\ before.rsz.callback_registered_

\* C26 -- journalEnd commits: it leaves the netlist as it is, empties the
\* five logs, changes no operation counter and closes the ECO; a journalBegin
\* that follows it starts from that netlist, and a journalRestore brings the
\* netlist back to the one of the last journalBegin, so the edits committed
\* before it are kept.
C26_Netlist(d) == [insts |-> d.insts, nets |-> d.nets, conn |-> d.conn]

C26_Counters(r) ==
  <<r.resize_count_, r.inserted_buffer_count_, r.cloned_gate_count_,
    r.swap_pin_count_, r.removed_buffer_count_>>

C26_EndState ==
  last.op = "journalEnd" =>
    /\ C26_Netlist(db) = C26_Netlist(before.db)
    /\ rsz.resized_inst_map_ = <<>>
    /\ rsz.inserted_buffers_ = <<>>
    /\ rsz.cloned_gates_ = <<>>
    /\ rsz.swapped_pins_ = <<>>
    /\ rsz.removed_buffer_map_ = <<>>
    /\ C26_Counters(rsz) = C26_Counters(before.rsz)
    /\ before.db.eco
    /\ ~db.eco

C26_RestoreState ==
  last.op = "journalRestore" => C26_Netlist(db) = C26_Netlist(begin)

C26_BeginAfterEndStep ==
  (last.op = "journalEnd" /\ last'.op = "journalBegin") =>
    C26_Netlist(begin') = C26_Netlist(db)

C26_EndCommits ==
  /\ [](C26_EndState /\ C26_RestoreState)
  /\ [][C26_BeginAfterEndStep]_vars

\* A restore that undoes the edits of the second transaction and keeps the
\* edits the first one committed.
C26_Witness ==
  /\ last.op = "journalRestore"
  /\ C26_Netlist(db) = C26_Netlist(begin)
  /\ C26_Netlist(db) # [insts |-> InitInsts, nets |-> InitNets, conn |-> InitConn]
  /\ C26_Netlist(db) # C26_Netlist(before.db)

\* C27 -- restoration record: the record a journaled removeBuffer writes
\* names as driver_pin a pin that drives the buffer's input net, not the
\* buffer's own input, whenever that net has a driver, and as load_pins the
\* pins of the buffer's output net other than the buffer's output.
C27_Buffer == last.arg[1]

C27_InPin == <<C27_Buffer, "A">>

C27_OutPin == <<C27_Buffer, "Z">>

C27_Drives(pin) ==
  IF pin[1] = TopInstance THEN pin[2] \in TopInputs
  ELSE pin[2] \in {"Z", "ZN", "Q", "QN", "HI", "LO"}

C27_Drivers == {pin \in connectedPins(before, net(before, C27_InPin)) : C27_Drives(pin)}

C27_Recorded ==
  /\ last.op = "removeBuffer"
  /\ last.arg[3]
  /\ C27_Buffer \in DOMAIN rsz.removed_buffer_map_
  /\ rsz.removed_buffer_map_ # before.rsz.removed_buffer_map_

C27_RecordNamesDriver ==
  C27_Recorded =>
    /\ C27_Drivers # {} =>
         rsz.removed_buffer_map_[C27_Buffer].driver_pin \in C27_Drivers \ {C27_InPin}
    /\ rsz.removed_buffer_map_[C27_Buffer].load_pins =
         connectedPins(before, net(before, C27_OutPin)) \ {C27_OutPin}

\* C28 -- the parasitics-invalid set names existing nets only: after
\* removeBuffer, a resize or journalRestoreBuffers every net in
\* parasitics_invalid_ is a net of the netlist.
C28_InvalidNetsExist == rsz.parasitics_invalid_ \subseteq DOMAIN db.nets

\* C29 -- log entries stand for applied edits: a journaled removeBuffer that
\* returns false leaves removed_buffer_map_ as it was, and a journaled
\* swapPins that changes no connection leaves swapped_pins_ as it was.
C29_OnlyAppliedEditsLogged ==
  /\ (last.op = "removeBuffer" /\ last.arg[3] /\ ~last.ret) =>
       rsz.removed_buffer_map_ = before.rsz.removed_buffer_map_
  /\ (last.op = "swapPins" /\ last.arg[4] /\ db.conn = before.db.conn) =>
       rsz.swapped_pins_ = before.rsz.swapped_pins_

\* C30 -- design area: design_area_ is the sum of area(master) over the
\* instances of the block.
C30_AreaIsSumOfInstances ==
  rsz.design_area_ = SumArea(db.insts, DOMAIN db.insts)

====
